---- MODULE Spec2Model ----
(***************************************************************************)
(* Verification model of the wax install engine: the dependency resolver   *)
(* (src/deps.rs), the install command with its concurrent fetch tasks      *)
(* (src/commands/install.rs), the uninstall command                        *)
(* (src/commands/uninstall.rs) and the install state (src/install.rs).     *)
(*                                                                         *)
(* Formula names are numbers.  In the catalog of the resolver and command  *)
(* specifications 1, 2, 3 stand for the formulae a, b, c; 0 is a name the   *)
(* catalog does not know.                                                   *)
(***************************************************************************)
EXTENDS Naturals, Sequences, FiniteSets, TLC

VARIABLES
    deps,               \* catalog: Formula.dependencies of every known formula
    has_bottle,         \* catalog: the formula has a bottle for the platform (or "all")
    state,              \* installed.json: name -> version, NoVersion when absent
    cellar,             \* existing directories Cellar/<name>/<version>
    faults,             \* environment: the fetch failures the network can produce
    pc,                 \* position of the running command
    cmd,                \* the command that ran last / is running
    package_names,      \* install: the requested names
    build_from_source,  \* install: the --build-from-source flag
    dry_run,            \* install: the --dry-run flag
    installed,          \* install: names of the state document loaded at the start
    all_to_install,     \* install: the combined list to install
    already_installed,  \* install: requested names found installed
    errors,             \* install: per-package validation errors <<name, kind>>
    loopIdx,            \* install: position of the spawn loop in all_to_install
    tasks,              \* install: state of each package's fetch task
    extracted_packages, \* install: packages whose fetch task returned Ok
    failed_packages,    \* install: error kinds of the fetch tasks that failed
    instIdx,            \* install: position of the installer loop
    installLog,         \* install: packages whose installer step completed, in order
    cellarAtStart,      \* install: the Cellar when the run started
    installerFailed,    \* install: an installer step (copy, symlink, state write) failed
    result,             \* what the last command returned
    res_target,         \* resolver call: the target
    res_installed,      \* resolver call: the installed set
    res,                \* resolver call: what resolve_dependencies returned
    body,               \* cache: formulae.json / casks.json, the response the file holds
    meta,               \* cache: metadata.json
    source,             \* history: headers of the response each cached body was written from
    clock,              \* commands that have used the network for the catalogs so far
    upd,                \* update: the cache before the last update and what it fetched
    provides,           \* catalog: the entries a bottle has under bin, lib, ...
    files,              \* the entries present under the Cellar: <<name, version, path>>
    prefix,             \* what is at <prefix>/<subdir>/<entry>, for each such path
    hist,               \* history: the disk before this command and before the last one
    lockfile,           \* ./wax.lock
    tree,               \* relocator: the regular file of the extracted tree
    reloc,              \* relocator: the last call, its prefix and the file before it
    bottle_files,       \* catalog: the platform tags each bottle manifest lists
    tap,                \* a custom tap: its registration, checkout and cached projection
    ver,                \* versions: the strings compared and sorted, and the results
    upg                 \* upgrade: the packages to upgrade, the position, what was reported

vars == <<deps, has_bottle, state, cellar, faults, pc, cmd, package_names,
          build_from_source, dry_run, installed,
          all_to_install, already_installed, errors, loopIdx, tasks,
          extracted_packages, failed_packages, instIdx, installLog, cellarAtStart,
          installerFailed, result, res_target, res_installed, res,
          body, meta, source, clock, upd, provides, files, prefix, hist,
          lockfile, tree, reloc, bottle_files, tap, ver, upg>>

relocVars == <<tree, reloc>>

cacheVars == <<body, meta, source, clock, upd>>

(***************************************************************************)
(* Bounds of the model.                                                    *)
(***************************************************************************)
MaxClock == 2           \* most commands that fetch the catalogs
MaxDeps == 2            \* most runtime dependencies one formula declares
MaxReq == 2             \* most names given to one install command
NumFetch == 9           \* packages of the run of the fetch specification
MaxChunks == 2          \* most pieces the file of a relocated tree is made of
MaxRevision == 2        \* largest revision suffix _N of a version string
MaxRev == 5             \* revisions the repository of a tap goes through

CatalogNames == {1, 2, 3}
UnknownName == 0
AllNames == CatalogNames \cup {UnknownName}

NoVersion == "none"
NoResult == [err |-> "none", list |-> <<>>]

(***************************************************************************)
(* Helpers on sequences and sets.                                          *)
(***************************************************************************)
Range(s) == {s[i] : i \in 1..Len(s)}

RECURSIVE Perms(_)
Perms(S) == IF S = {} THEN {<<>>}
            ELSE UNION {{<<x>> \o p : p \in Perms(S \ {x})} : x \in S}

\* A Vec holding the elements of S (the order of a dependency list).
SetToSeq(S) == CHOOSE p \in Perms(S) : \A i, j \in 1..Len(p) : i < j => p[i] < p[j]

\* The elements of S in the order in which `order` lists them.
InOrder(S, order) == LET Keep(x) == x \in S IN SelectSeq(order, Keep)

SeqsUpTo(S, n) == UNION {[1..k -> S] : k \in 0..n}

NoDuplicates(s) == \A i, j \in 1..Len(s) : i # j => s[i] # s[j]

(***************************************************************************)
(* src/deps.rs: resolve_dependencies, the breadth-first walk.              *)
(***************************************************************************)
\* 112-116: the dependencies pushed on the queue
Unmet(name, inst) == SetToSeq({d \in deps[name] : d \notin inst})

RECURSIVE Walk(_, _, _)
Walk(queue, visited, inst) ==
    IF queue = <<>> THEN [err |-> "none", visited |-> visited]
    ELSE LET name == Head(queue) IN
         IF name \in visited \/ name \in inst THEN Walk(Tail(queue), visited, inst)
         ELSE IF name \notin DOMAIN deps
              THEN [err |-> "FormulaNotFound", visited |-> visited]
              ELSE Walk(Tail(queue) \o Unmet(name, inst), visited \cup {name}, inst)

(***************************************************************************)
(* src/deps.rs: DependencyGraph::topological_sort.  The graph's nodes are  *)
(* the walked names, each mapped to all its dependencies.  in_degree and   *)
(* nodes are HashMaps: `sigma` is the iteration order of in_degree (the    *)
(* order of the initial queue) and `pi` the iteration order of nodes (the  *)
(* order of every adjacency list).                                         *)
(***************************************************************************)
InDegreeKeys(nodes) == nodes \cup UNION {deps[n] : n \in nodes}

\* InitInDegree with a count that stops at one (deps.len() read as `has deps`).
InitInDegreeCapped(nodes) ==
    [k \in InDegreeKeys(nodes) |-> IF k \in nodes /\ deps[k] # {} THEN 1 ELSE 0]

\* 38-41
InitInDegree(nodes) ==
    [k \in InDegreeKeys(nodes) |-> IF k \in nodes THEN Cardinality(deps[k]) ELSE 0]

\* 34: adj_list[dep], the nodes that list dep
AdjList(dep, nodes, pi) == InOrder({n \in nodes : dep \in deps[n]}, pi)

\* 57
Decrement(count) == count - 1

\* 58
IsReady(count) == count = 0

RECURSIVE KahnLoop(_, _, _, _, _)
KahnLoop(queue, in_degree, out, nodes, pi) ==
    IF queue = <<>> THEN out
    ELSE LET node == Head(queue)
             neighbors == AdjList(node, nodes, pi)
             after == [k \in DOMAIN in_degree |->
                          IF k \in Range(neighbors) THEN Decrement(in_degree[k])
                          ELSE in_degree[k]]
             Ready(n) == IsReady(after[n])
         IN KahnLoop(Tail(queue) \o SelectSeq(neighbors, Ready), after,
                     Append(out, node), nodes, pi)

topological_sort(nodes, sigma, pi) ==
    LET in_degree == InitInDegree(nodes)
        queue == InOrder({k \in DOMAIN in_degree : in_degree[k] = 0}, sigma)
        out == KahnLoop(queue, in_degree, <<>>, nodes, pi)
    IN IF Len(out) # Cardinality(DOMAIN in_degree)
       THEN [err |-> "DependencyCycle", list |-> <<>>]
       ELSE [err |-> "none", list |-> out]

\* FilterInstalled without its filter: the sorted list as it is.
FilterNothing(sorted, inst) == sorted

\* 121-124
FilterInstalled(sorted, inst) == LET Keep(n) == n \notin inst IN SelectSeq(sorted, Keep)

resolve_dependencies(target, inst, sigma, pi) ==
    LET w == Walk(<<target>>, {}, inst) IN
    IF w.err # "none" THEN [err |-> w.err, list |-> <<>>]
    ELSE LET s == topological_sort(w.visited, sigma, pi) IN
         IF s.err # "none" THEN s
         ELSE [err |-> "none", list |-> FilterInstalled(s.list, inst)]

\* Every result the call can return, over the iteration orders of the two HashMaps.
ResolveOutputs(target, inst) ==
    LET w == Walk(<<target>>, {}, inst) IN
    IF w.err # "none" THEN {[err |-> w.err, list |-> <<>>]}
    ELSE LET zero == {k \in InDegreeKeys(w.visited) : InitInDegree(w.visited)[k] = 0}
         IN {resolve_dependencies(target, inst, sigma, pi) :
                sigma \in Perms(zero), pi \in Perms(w.visited)}

(***************************************************************************)
(* src/commands/install.rs, install: the validation loop over the          *)
(* requested names (184-231).  Every plan the loop can end with.           *)
(***************************************************************************)
\* The names not yet listed are put in front of the list.
PrependNew(all, list) ==
    SelectSeq(list, LAMBDA n : ~\E i \in 1..Len(all) : all[i] = n) \o all

\* 220-224
AppendNew(all, list) ==
    LET F[i \in 0..Len(list)] ==
            IF i = 0 THEN all
            ELSE IF list[i] \in Range(F[i - 1]) THEN F[i - 1]
                 ELSE Append(F[i - 1], list[i])
    IN F[Len(list)]

\* 202-205: a token of casks.json that is not the name of a formula
CaskName == 4

Casks == {CaskName}

\* 184-231: the loop over the requested names; `cask` holds the name at which the
\* loop was left for install_cask, if it was
RECURSIVE PlanLoop(_, _, _, _, _)
PlanLoop(names, inst, all, already, errs) ==
    IF names = <<>>
    THEN {[all_to_install |-> all, already_installed |-> already, errors |-> errs,
           cask |-> <<>>]}
    ELSE LET p == Head(names) IN
         IF p \in inst
         THEN PlanLoop(Tail(names), inst, all, Append(already, p), errs)
         ELSE IF p \notin DOMAIN deps
              THEN IF p \in Casks
                   THEN {[all_to_install |-> all, already_installed |-> already,
                          errors |-> errs, cask |-> <<p>>]}
                   ELSE PlanLoop(Tail(names), inst, all, already,
                                 Append(errs, <<p, "NotFound">>))
              ELSE UNION {IF r.err = "none"
                          THEN PlanLoop(Tail(names), inst, AppendNew(all, r.list), already, errs)
                          ELSE PlanLoop(Tail(names), inst, all, already,
                                        Append(errs, <<p, r.err>>))
                          : r \in ResolveOutputs(p, inst)}

InstalledNames == {n \in DOMAIN state : state[n] # NoVersion}

(***************************************************************************)
(* The resolver called on its own.                                         *)
(***************************************************************************)
ResolveCall(target) ==
    /\ pc = "idle"
    /\ \E r \in ResolveOutputs(target, InstalledNames) :
          /\ res' = r
          /\ res_target' = target
          /\ res_installed' = InstalledNames
          /\ cmd' = "resolve"
    /\ UNCHANGED <<cacheVars, relocVars, deps, has_bottle, bottle_files, tap, ver, upg, provides,
                   hist, lockfile,
                   state, cellar, files, prefix,
                   faults, pc, package_names,
                   build_from_source, dry_run, installed, all_to_install,
                   already_installed, errors, loopIdx, tasks,
                   extracted_packages, failed_packages, instIdx, installLog,
                   cellarAtStart, installerFailed, result>>

(***************************************************************************)
(* src/commands/install.rs, install (125-450).                             *)
(***************************************************************************)
\* 343: pkg.versions.stable
StableVersion(n) == "v1"

\* 301: Semaphore::new(8)
Permits == 8

FetchFailures == {"HttpError", "ChecksumMismatch", "IoError"}
SourceFetchFailures == {"HttpError", "ParseError", "IoError", "BuildError", "ChecksumMismatch"}
SourceFailures == SourceFetchFailures \cup {"BuildError"}
Settled == {"ok"} \cup FetchFailures

catalogVars ==
    <<deps, has_bottle, bottle_files, faults, cacheVars, provides, relocVars, tap, ver, upg>>
resolverVars == <<res_target, res_installed, res>>
planVars == <<package_names, build_from_source, dry_run, installed, all_to_install,
              already_installed, errors, cellarAtStart>>

NoTasks == [n \in DOMAIN deps |-> "none"]

\* 471-600: what install_cask returns: the cask is installed or was already, or
\* its download or its checksum failed
install_cask == {"Ok"} \cup (FetchFailures \cap faults)

\* 178-281: load the state, validate the requested names, stop on a dry run; a name
\* that is a cask returns install_cask's result at once (207)
install(names, dry, bfs) ==
    /\ names # <<>>
    /\ \E plan \in PlanLoop(names, InstalledNames, <<>>, <<>>, <<>>),
          o \in install_cask :
          /\ package_names' = names
          /\ build_from_source' = bfs
          /\ dry_run' = dry
          /\ installed' = InstalledNames
          /\ all_to_install' = plan.all_to_install
          /\ already_installed' = plan.already_installed
          /\ errors' = plan.errors
          /\ IF plan.cask # <<>>
             THEN pc' = "done" /\ result' = o
             ELSE /\ o = "Ok"
                  /\ IF plan.errors # <<>> /\ plan.all_to_install = <<>>
                     THEN pc' = "done" /\ result' = "InstallError"
                     ELSE IF plan.all_to_install = <<>> \/ dry
                          THEN pc' = "done" /\ result' = "Ok"
                          ELSE pc' = "loop" /\ result' = "none"
    /\ cmd' = "install"
    /\ cellarAtStart' = cellar
    /\ loopIdx' = 1
    /\ tasks' = NoTasks
    /\ extracted_packages' = <<>>
    /\ failed_packages' = <<>>
    /\ instIdx' = 1
    /\ installLog' = <<>>
    /\ installerFailed' = FALSE
    /\ UNCHANGED <<catalogVars, hist, lockfile, resolverVars, state, cellar, files, prefix>>

\* main.rs 221-239: the install command
InstallStart(names, dry, bfs) == pc = "idle" /\ install(names, dry, bfs)

\* 307-314
TakesSourcePath(pkg) == ~has_bottle[pkg] \/ build_from_source

\* 357: tokio::spawn of the package's fetch task
SpawnTask ==
    /\ pc = "loop"
    /\ loopIdx <= Len(all_to_install)
    /\ ~TakesSourcePath(all_to_install[loopIdx])
    /\ tasks' = [tasks EXCEPT ![all_to_install[loopIdx]] = "waiting"]
    /\ loopIdx' = loopIdx + 1
    /\ UNCHANGED <<catalogVars, hist, lockfile, resolverVars, planVars, state, cellar,
                   files, prefix, pc, cmd,
                   extracted_packages, failed_packages, instIdx, installLog,
                   installerFailed, result>>

Running == {n \in DOMAIN tasks : tasks[n] = "running"}

\* 358: semaphore.acquire()
TaskAcquire(p) ==
    /\ pc \in {"loop", "source", "build", "sync"}
    /\ tasks[p] = "waiting"
    /\ Cardinality(Running) < Permits
    /\ tasks' = [tasks EXCEPT ![p] = "running"]
    /\ UNCHANGED <<catalogVars, hist, lockfile, resolverVars, planVars, state, cellar,
                   files, prefix, pc, cmd, loopIdx,
                   extracted_packages, failed_packages, instIdx, installLog,
                   installerFailed, result>>

\* 360-370: download, verify_checksum, extract; the permit is dropped at the end
TaskFinish(p, outcome) ==
    /\ pc \in {"loop", "source", "build", "sync"}
    /\ tasks[p] = "running"
    /\ outcome = "ok" \/ (outcome \in FetchFailures /\ outcome \in faults)
    /\ tasks' = [tasks EXCEPT ![p] = outcome]
    /\ UNCHANGED <<catalogVars, hist, lockfile, resolverVars, planVars, state, cellar,
                   files, prefix, pc, cmd, loopIdx,
                   extracted_packages, failed_packages, instIdx, installLog,
                   installerFailed, result>>

\* The command returns early: the process exits and its unsettled tasks end with it.
Abandon(t) == [n \in DOMAIN t |-> IF t[n] \in {"waiting", "running"} THEN "cancelled"
                                   ELSE t[n]]

\* 320: install_from_source_task is awaited inside the loop; it starts fetching the
\* formula file and the source archive (41-55)
SourceBegin ==
    /\ pc = "loop"
    /\ loopIdx <= Len(all_to_install)
    /\ TakesSourcePath(all_to_install[loopIdx])
    /\ pc' = "source"
    /\ UNCHANGED <<catalogVars, hist, lockfile, resolverVars, planVars, state, cellar,
                   files, prefix, cmd, loopIdx, tasks,
                   extracted_packages, failed_packages, instIdx, installLog,
                   installerFailed, result>>

\* The Cellar, the state and the log after an installer step of `name` that ends at
\* `stage`: create_dir_all, copy_dir_all, create_symlinks, state.add (406-430, 91-110).
(***************************************************************************)
(* src/install.rs, create_symlinks (266-335) and remove_symlinks           *)
(* (337-400).  A path is "<subdir>/<entry>"; an entry of the prefix is     *)
(* nothing, a regular file, or a symbolic link to an entry of the Cellar.  *)
(***************************************************************************)
Paths == {"bin/tool", "lib/libz"}

\* 286-293: link_dirs is walked in this order
LinkOrder == <<"bin/tool", "lib/libz">>

NoTarget == <<UnknownName, NoVersion, "none">>
NoEntry == [kind |-> "none", to |-> NoTarget]
RegularFile == [kind |-> "file", to |-> NoTarget]
\* A link into the package's directory, not into the directory of the version.
LinkToUnversioned(name, version, path) == [kind |-> "link", to |-> <<name, NoVersion, path>>]

LinkTo(name, version, path) == [kind |-> "link", to |-> <<name, version, path>>]

\* Path::exists follows a symbolic link: a link whose target is gone does not exist
Exists(entry, fs) == entry.kind = "file" \/ (entry.kind = "link" /\ entry.to \in fs)

\* 295-330: an existing target is skipped; symlink() fails where an entry that
\* does not "exist" is in the way
RECURSIVE LinkLoop(_, _, _, _, _)
LinkLoop(i, name, version, fs, px) ==
    IF i > Len(LinkOrder) THEN [err |-> "none", prefix |-> px]
    ELSE LET p == LinkOrder[i] IN
         IF <<name, version, p>> \notin fs THEN LinkLoop(i + 1, name, version, fs, px)
         ELSE IF Exists(px[p], fs) THEN LinkLoop(i + 1, name, version, fs, px)
         ELSE IF px[p].kind # "none" THEN [err |-> "IoError", prefix |-> px]
         ELSE LinkLoop(i + 1, name, version, fs,
                       [px EXCEPT ![p] = LinkTo(name, version, p)])

create_symlinks(name, version, fs, px) == LinkLoop(1, name, version, fs, px)

\* A removal that does not look at where the link points.
IsAnyLink(entry, name, version) == entry.kind = "link"

\* 381-391: is_symlink() and read_link().starts_with(Cellar/<name>/<version>)
IsOwnLink(entry, name, version) ==
    entry.kind = "link" /\ entry.to[1] = name /\ entry.to[2] = version

\* 366-394: the entries of Cellar/<name>/<version>/<subdir> are visited
RECURSIVE UnlinkLoop(_, _, _, _, _)
UnlinkLoop(i, name, version, fs, px) ==
    IF i > Len(LinkOrder) THEN px
    ELSE LET p == LinkOrder[i] IN
         IF <<name, version, p>> \notin fs THEN UnlinkLoop(i + 1, name, version, fs, px)
         ELSE IF ~Exists(px[p], fs) THEN UnlinkLoop(i + 1, name, version, fs, px)
         ELSE IF IsOwnLink(px[p], name, version)
              THEN UnlinkLoop(i + 1, name, version, fs, [px EXCEPT ![p] = NoEntry])
              ELSE UnlinkLoop(i + 1, name, version, fs, px)

remove_symlinks(name, version, fs, px) == UnlinkLoop(1, name, version, fs, px)

\* The state on disk that install and uninstall work on.
Disk == [state |-> state, cellar |-> cellar, files |-> files, prefix |-> prefix]

\* commands/install.rs 405-433: create_dir_all, copy_dir_all, create_symlinks, state.add
NewFiles(name) == {<<name, StableVersion(name), p>> : p \in provides[name]}

Copied(name) == files \cup NewFiles(name)

Linked(name) == create_symlinks(name, StableVersion(name), Copied(name), prefix)

\* The step that fails: the one the environment fails, or create_symlinks itself.
FailingStage(name, stage) ==
    IF stage \in {"state", "ok"} /\ Linked(name).err # "none" THEN "link" ELSE stage

FilesAfter(name, stage) ==
    IF stage = "mkdir" THEN {files}
    ELSE IF stage = "copy" THEN {files \cup F : F \in SUBSET NewFiles(name)}
    ELSE {Copied(name)}

PrefixAfter(name, stage) ==
    IF stage \in {"mkdir", "copy", "symlink"} THEN prefix ELSE Linked(name).prefix

CellarAfter(name, stage) ==
    IF stage = "mkdir" THEN cellar ELSE cellar \cup {<<name, StableVersion(name)>>}

\* The record is written as soon as the directory exists.
StateAfterEarly(name, stage) ==
    IF stage # "mkdir" THEN [state EXCEPT ![name] = StableVersion(name)] ELSE state

StateAfter(name, stage) ==
    IF stage = "ok" THEN [state EXCEPT ![name] = StableVersion(name)] ELSE state

InstallerStages == {"mkdir", "copy", "symlink", "state", "ok"}

\* 41-72: the formula file is fetched and parsed, the source archive downloaded and
\* its checksum compared; an error returns from install (`?`)
SourceFetched(outcome) ==
    /\ pc = "source"
    /\ \/ /\ outcome \in SourceFetchFailures /\ outcome \in faults
          /\ pc' = "done" /\ result' = outcome
          /\ tasks' = Abandon(tasks)
       \/ /\ outcome = "ok"
          /\ pc' = "build"
          /\ UNCHANGED <<tasks, result>>
    /\ UNCHANGED <<catalogVars, hist, lockfile, resolverVars, planVars, state, cellar,
                   files, prefix, cmd, loopIdx,
                   extracted_packages, failed_packages, instIdx, installLog,
                   installerFailed>>

\* 74-121: the build, then the installer step of the package built
SourceFinish(outcome) ==
    /\ pc = "build"
    /\ LET name == all_to_install[loopIdx] IN
       \/ /\ outcome = "BuildError" /\ outcome \in faults
          /\ pc' = "done" /\ result' = outcome
          /\ tasks' = Abandon(tasks)
          /\ UNCHANGED <<state, cellar, files, prefix, loopIdx, installLog,
                         installerFailed>>
       \/ /\ outcome \in InstallerStages /\ FailingStage(name, outcome) # "ok"
          /\ outcome = "ok" \/ "IoError" \in faults
          /\ pc' = "done" /\ result' = "IoError"
          /\ tasks' = Abandon(tasks)
          /\ cellar' = CellarAfter(name, FailingStage(name, outcome))
          /\ files' \in FilesAfter(name, FailingStage(name, outcome))
          /\ prefix' = PrefixAfter(name, FailingStage(name, outcome))
          /\ installerFailed' = TRUE
          /\ UNCHANGED <<state, loopIdx, installLog>>
       \/ /\ outcome = "ok" /\ FailingStage(name, outcome) = "ok"
          /\ cellar' = CellarAfter(name, "ok")
          /\ files' \in FilesAfter(name, "ok")
          /\ prefix' = PrefixAfter(name, "ok")
          /\ state' = StateAfter(name, "ok")
          /\ installLog' = Append(installLog, name)
          /\ loopIdx' = loopIdx + 1
          /\ pc' = "loop"
          /\ UNCHANGED <<tasks, installerFailed, result>>
    /\ UNCHANGED <<catalogVars, hist, lockfile, resolverVars, planVars, cmd, extracted_packages,
                   failed_packages, instIdx>>

\* 376-403: join_all, then the results are split in task order
Spawned == {n \in DOMAIN tasks : tasks[n] # "none"}

\* 382-390: Ok(Ok(data)) goes to extracted_packages, an error to failed_packages
IsExtracted(outcome) == outcome = "ok"

JoinAll ==
    /\ pc = "loop"
    /\ loopIdx > Len(all_to_install)
    /\ \A n \in Spawned : tasks[n] \in Settled
    /\ LET ok == InOrder({n \in Spawned : IsExtracted(tasks[n])}, all_to_install)
           failedNames == InOrder({n \in Spawned : ~IsExtracted(tasks[n])}, all_to_install)
           failed == [i \in 1..Len(failedNames) |-> tasks[failedNames[i]]]
       IN /\ extracted_packages' = ok
          /\ failed_packages' = failed
          /\ IF failed # <<>> /\ ok = <<>>
             THEN pc' = "done" /\ result' = "InstallError"
             ELSE pc' = "installer" /\ result' = "none"
    /\ UNCHANGED <<catalogVars, hist, lockfile, resolverVars, planVars, state, cellar,
                   files, prefix, cmd, loopIdx,
                   tasks, instIdx, installLog, installerFailed>>

\* 406-433: the installer step of one extracted package
InstallerStep(stage) ==
    /\ pc = "installer"
    /\ instIdx <= Len(extracted_packages)
    /\ stage \in InstallerStages
    /\ stage = "ok" \/ "IoError" \in faults
    /\ LET name == extracted_packages[instIdx]
           failing == FailingStage(name, stage) IN
       /\ cellar' = CellarAfter(name, failing)
       /\ files' \in FilesAfter(name, failing)
       /\ prefix' = PrefixAfter(name, failing)
       /\ state' = StateAfter(name, failing)
       /\ IF failing = "ok"
          THEN /\ installLog' = Append(installLog, name)
               /\ instIdx' = instIdx + 1
               /\ UNCHANGED <<pc, result, installerFailed>>
          ELSE /\ pc' = "done" /\ result' = "IoError"
               /\ installerFailed' = TRUE
               /\ UNCHANGED <<installLog, instIdx>>
    /\ UNCHANGED <<catalogVars, hist, lockfile, resolverVars, planVars, cmd, loopIdx, tasks,
                   extracted_packages, failed_packages>>

\* 435-449
InstallDone ==
    /\ pc = "installer"
    /\ instIdx > Len(extracted_packages)
    /\ pc' = "done" /\ result' = "Ok"
    /\ UNCHANGED <<catalogVars, hist, lockfile, resolverVars, planVars, state, cellar,
                   files, prefix, cmd, loopIdx,
                   tasks, extracted_packages, failed_packages, instIdx, installLog,
                   installerFailed>>

(***************************************************************************)
(* src/commands/uninstall.rs, uninstall (10-108).  The command runs to its *)
(* end in one step; `confirm` is the answer to the prompt and `stage` the  *)
(* call that fails: remove_symlinks, remove_dir_all, state.remove.         *)
(***************************************************************************)
\* 38-49
Dependents(name) ==
    {f \in DOMAIN deps : name \in deps[f] /\ state[f] # NoVersion}

OwnDirs(name) == {d \in cellar : d[1] = name}

\* 88-91: remove_dir_all(Cellar/<name>) stopped by an error has removed some of it
PartlyRemoved(name) == {cellar \ gone : gone \in SUBSET OwnDirs(name)}

\* 149-154: InstallState::remove
Removed(name) == [state EXCEPT ![name] = NoVersion]

\* 84-86: remove_symlinks for the recorded version
Unlinked(name) == remove_symlinks(name, state[name], files, prefix)

\* 88-91: remove_dir_all(Cellar/<name>)
FilesWithout(name) == {f \in files : f[1] # name}

UninstallStages == {"symlink", "rmdir", "state", "ok"}

\* 19-108: what the call returns and what it leaves on the disk
uninstall(name, dry, confirm, stage) ==
    /\ stage \in UninstallStages
    /\ stage = "ok" \/ "IoError" \in faults
    /\ IF state[name] = NoVersion
       THEN result' = "NotInstalled" /\ UNCHANGED <<state, cellar, files, prefix>>
       ELSE IF Dependents(name) # {} /\ ~dry /\ confirm # "yes"
            THEN result' = "Ok" /\ UNCHANGED <<state, cellar, files, prefix>>
            ELSE IF dry
                 THEN result' = "Ok" /\ UNCHANGED <<state, cellar, files, prefix>>
                 ELSE CASE stage = "symlink" ->
                              result' = "IoError" /\ UNCHANGED <<state, cellar, files, prefix>>
                        [] stage = "rmdir" ->
                              /\ result' = "IoError"
                              /\ prefix' = Unlinked(name)
                              /\ cellar' \in PartlyRemoved(name)
                              /\ files' = {f \in files : <<f[1], f[2]>> \in cellar'}
                              /\ UNCHANGED state
                        [] stage = "state" ->
                              /\ result' = "IoError"
                              /\ prefix' = Unlinked(name)
                              /\ cellar' = cellar \ OwnDirs(name)
                              /\ files' = FilesWithout(name)
                              /\ UNCHANGED state
                        [] stage = "ok" ->
                              /\ result' = "Ok"
                              /\ prefix' = Unlinked(name)
                              /\ cellar' = cellar \ OwnDirs(name)
                              /\ files' = FilesWithout(name)
                              /\ state' = Removed(name)

\* main.rs 248-252: the uninstall command
Uninstall(name, dry, confirm, stage) ==
    /\ pc = "idle"
    /\ cmd' = "uninstall"
    /\ package_names' = <<name>>
    /\ pc' = "done"
    /\ uninstall(name, dry, confirm, stage)
    /\ dry_run' = dry
    /\ UNCHANGED <<catalogVars, hist, lockfile, resolverVars, build_from_source, installed,
                   all_to_install, already_installed, errors, cellarAtStart, loopIdx,
                   tasks, extracted_packages, failed_packages, instIdx, installLog,
                   installerFailed>>

(***************************************************************************)
(* src/cache.rs and src/api.rs: the catalog cache.  A response of the      *)
(* server is named by a number; a cached body is the number of the         *)
(* response it was written from, and a validator (ETag, Last-Modified) is  *)
(* the number of the response whose header it was.                         *)
(***************************************************************************)
CatalogKinds == {"formulae", "casks"}

\* A file that does not exist; a header the response does not carry.
Absent == 0

\* 12-20: CacheMetadata; 151-154: load_metadata gives None when the file is missing
NoMeta ==
    [exists |-> FALSE, last_updated |-> 0,
     count |-> [k \in CatalogKinds |-> 0],
     etag |-> [k \in CatalogKinds |-> Absent],
     last_modified |-> [k \in CatalogKinds |-> Absent]]

NoSource == [etag |-> Absent, last_modified |-> Absent]

\* What the server answers: 200 with or without each header, 304, or a failure.
Responses ==
    {[status |-> "200", etag |-> e, last_modified |-> l] : e, l \in BOOLEAN}
        \cup {[status |-> s, etag |-> FALSE, last_modified |-> FALSE] : s \in {"304", "err"}}

\* A server answers 304 only to a request that carried a validator.
CanAnswer(r, etag, last_modified) ==
    r.status = "304" => (etag # Absent \/ last_modified # Absent)

\* api.rs 106-155 (and 158-207): fetch_formulae_conditional, fetch_casks_conditional
FetchConditional(r, id) ==
    IF r.status = "err"
    THEN [err |-> "HttpError", data |-> Absent, etag |-> Absent,
          last_modified |-> Absent, not_modified |-> FALSE]
    ELSE IF r.status = "304"
         THEN [err |-> "none", data |-> Absent, etag |-> Absent,
               last_modified |-> Absent, not_modified |-> TRUE]
         ELSE [err |-> "none", data |-> id,
               etag |-> IF r.etag THEN id ELSE Absent,
               last_modified |-> IF r.last_modified THEN id ELSE Absent,
               not_modified |-> FALSE]

\* data.len(): the number of entries of a catalog body
Count(data) == data

\* 68-83: save_formulae, save_casks
SaveBody(c, kind, fetch) ==
    [c EXCEPT !.body[kind] = fetch.data,
              !.source[kind] = [etag |-> fetch.etag, last_modified |-> fetch.last_modified]]

AutoInitStages == {"save_formulae", "save_casks", "save_metadata", "ok"}

\* 112-149: auto_init; `stage` is the write that fails
auto_init(c, rs, id, stage, now) ==
    LET f == FetchConditional(rs["formulae"], id)
        k == FetchConditional(rs["casks"], id)
        c1 == SaveBody(c, "formulae", f)
        c2 == SaveBody(c1, "casks", k)
        metadata == [exists |-> TRUE, last_updated |-> now,
                     count |-> [x \in CatalogKinds |-> 0],
                     etag |-> [x \in CatalogKinds |->
                                  IF x = "formulae" THEN f.etag ELSE k.etag],
                     last_modified |-> [x \in CatalogKinds |->
                                  IF x = "formulae" THEN f.last_modified
                                  ELSE k.last_modified]]
    IN IF f.err # "none" THEN [err |-> f.err, cache |-> c]
       ELSE IF k.err # "none" THEN [err |-> k.err, cache |-> c]
       ELSE IF stage = "save_formulae" THEN [err |-> "IoError", cache |-> c]
       ELSE IF stage = "save_casks" THEN [err |-> "IoError", cache |-> c1]
       ELSE IF stage = "save_metadata" THEN [err |-> "IoError", cache |-> c2]
       ELSE [err |-> "none", cache |-> [c2 EXCEPT !.meta = metadata]]

\* 92-110: load_formulae, load_casks
load_catalog(c, kind, rs, id, stage, now) ==
    IF c.body[kind] = Absent THEN auto_init(c, rs, id, stage, now)
    ELSE [err |-> "none", cache |-> c]

(***************************************************************************)
(* src/commands/update.rs, update (8-108).  `rs` are the answers to the    *)
(* two conditional requests, `ars` the answers auto_init gets when a body  *)
(* is missing, `stage` the write of update that fails and `istage` the     *)
(* write of auto_init that fails.                                          *)
(***************************************************************************)
UpdateStages == {"save_formulae", "save_casks", "save_metadata", "ok"}

\* 38-63: one catalog's branch of update
UpdateBody(c, kind, fetch, failed, ars, aid, istage, now) ==
    IF fetch.not_modified THEN load_catalog(c, kind, ars, aid, istage, now)
    ELSE IF failed THEN [err |-> "IoError", cache |-> c]
         ELSE [err |-> "none", cache |-> SaveBody(c, kind, fetch)]

\* 65-87: the new metadata keeps the old validator where the fetch has none
NewMetadata(metadata, f, k, cache, now) ==
    [exists |-> TRUE, last_updated |-> now,
     count |-> [x \in CatalogKinds |-> Count(cache.body[x])],
     etag |-> [x \in CatalogKinds |->
                  LET e == IF x = "formulae" THEN f.etag ELSE k.etag
                  IN IF e # Absent THEN e ELSE metadata.etag[x]],
     last_modified |-> [x \in CatalogKinds |->
                  LET l == IF x = "formulae" THEN f.last_modified ELSE k.last_modified
                  IN IF l # Absent THEN l ELSE metadata.last_modified[x]]]

update(c, rs, id, ars, aid, stage, istage, now) ==
    LET metadata == c.meta
        f == FetchConditional(rs["formulae"], id)
        k == FetchConditional(rs["casks"], id)
        a == UpdateBody(c, "formulae", f, stage = "save_formulae", ars, aid, istage, now)
        b == UpdateBody(a.cache, "casks", k, stage = "save_casks", ars, aid, istage, now)
    IN IF f.err # "none" THEN [err |-> f.err, cache |-> c]
       ELSE IF k.err # "none" THEN [err |-> k.err, cache |-> c]
       ELSE IF a.err # "none" THEN a
       ELSE IF b.err # "none" THEN b
       ELSE IF stage = "save_metadata" THEN [err |-> "IoError", cache |-> b.cache]
       ELSE [err |-> "none",
             cache |-> [b.cache EXCEPT !.meta = NewMetadata(metadata, f, k, b.cache, now)]]

TheCache == [body |-> body, meta |-> meta, source |-> source]

NoUpdate ==
    [before |-> [body |-> [k \in CatalogKinds |-> Absent], meta |-> NoMeta],
     fetched |-> [k \in CatalogKinds |-> "none"]]

\* The answers the environment can give: failures only when `faults` has them.
Answers(statuses) ==
    {rs \in [CatalogKinds -> Responses] :
        \A k \in CatalogKinds :
            /\ rs[k].status \in statuses
            /\ rs[k].status = "err" => "HttpError" \in faults}

Update(rs, ars, stage, istage) ==
    /\ pc = "idle"
    /\ clock < MaxClock
    /\ \A k \in CatalogKinds : CanAnswer(rs[k], meta.etag[k], meta.last_modified[k])
    /\ (stage # "ok" \/ istage # "ok") => "IoError" \in faults
    /\ LET out == update(TheCache, rs, 2 * clock + 1, ars, 2 * clock + 2, stage, istage,
                         clock + 1)
       IN /\ body' = out.cache.body
          /\ meta' = out.cache.meta
          /\ source' = out.cache.source
          /\ result' = IF out.err = "none" THEN "Ok" ELSE out.err
    /\ upd' = [before |-> [body |-> body, meta |-> meta],
               fetched |-> [k \in CatalogKinds |-> rs[k].status]]
    /\ clock' = clock + 1
    /\ cmd' = "update"
    /\ pc' = "done"
    /\ UNCHANGED <<deps, has_bottle, bottle_files, tap, ver, upg, faults, provides, relocVars, hist,
                   lockfile,
                   resolverVars,
                   planVars, state,
                   cellar, files, prefix,
                   loopIdx, tasks, extracted_packages, failed_packages, instIdx,
                   installLog, installerFailed>>

\* A command that reads a catalog whose file is missing (install, search, info ...)
LoadCatalog(kind, ars, istage) ==
    /\ pc = "idle"
    /\ clock < MaxClock
    /\ body[kind] = Absent
    /\ istage # "ok" => "IoError" \in faults
    /\ LET out == load_catalog(TheCache, kind, ars, 2 * clock + 2, istage, clock + 1)
       IN /\ body' = out.cache.body
          /\ meta' = out.cache.meta
          /\ source' = out.cache.source
          /\ result' = IF out.err = "none" THEN "Ok" ELSE out.err
    /\ clock' = clock + 1
    /\ cmd' = "load"
    /\ pc' = "done"
    /\ UNCHANGED <<deps, has_bottle, bottle_files, tap, ver, upg, faults, provides, relocVars, hist,
                   lockfile,
                   resolverVars,
                   planVars, state,
                   cellar, files, prefix,
                   loopIdx, tasks, extracted_packages, failed_packages, instIdx,
                   installLog, installerFailed, upd>>

\* The cache directory is cleaned between two commands: a catalog file is gone.
CacheFileRemoved(kind) ==
    /\ pc = "idle"
    /\ body[kind] # Absent
    /\ body' = [body EXCEPT ![kind] = Absent]
    /\ source' = [source EXCEPT ![kind] = NoSource]
    /\ UNCHANGED <<deps, has_bottle, bottle_files, tap, ver, upg, faults, provides, relocVars, hist,
                   lockfile,
                   resolverVars,
                   planVars, state,
                   cellar, files, prefix,
                   pc, cmd, result, loopIdx, tasks, extracted_packages, failed_packages,
                   instIdx, installLog, installerFailed, meta, clock, upd>>

\* No cache yet.
CacheEmpty ==
    /\ body = [k \in CatalogKinds |-> Absent]
    /\ meta = NoMeta
    /\ source = [k \in CatalogKinds |-> NoSource]
    /\ clock = 0
    /\ upd = NoUpdate

\* The cache an earlier update has written, from responses that carried both headers.
CachePresent ==
    /\ body = [k \in CatalogKinds |-> 1]
    /\ meta = [exists |-> TRUE, last_updated |-> 1,
               count |-> [k \in CatalogKinds |-> Count(1)],
               etag |-> [k \in CatalogKinds |-> 1],
               last_modified |-> [k \in CatalogKinds |-> 1]]
    /\ source = [k \in CatalogKinds |-> [etag |-> 1, last_modified |-> 1]]
    /\ clock = 1
    /\ upd = NoUpdate

(***************************************************************************)
(* src/lockfile.rs and src/commands/lock.rs, sync.rs.  An entry of the     *)
(* lockfile is the version and the bottle platform of a package; every     *)
(* record and entry written on this machine has the platform that          *)
(* detect_platform() gives.                                                *)
(***************************************************************************)
CurrentPlatform == "platform"

Platform(name) == CurrentPlatform

\* commands/install.rs 332-335, sync.rs 119-122: files.get(&platform), or_else "all"
SelectedTag(tags) ==
    IF CurrentPlatform \in tags THEN CurrentPlatform
    ELSE IF "all" \in tags THEN "all" ELSE "none"

\* commands/install.rs 307-312
HasBottle(tags) == SelectedTag(tags) # "none"

\* Every manifest lists the platform of this machine, or nothing.
PlatformBottles ==
    bottle_files = [n \in DOMAIN has_bottle |->
                       IF has_bottle[n] THEN {CurrentPlatform} ELSE {}]

NoLock == [version |-> NoVersion, bottle |-> "none"]

NoLockfile == [exists |-> FALSE, packages |-> [n \in AllNames |-> NoLock]]

\* lockfile.rs 28-46: Lockfile::generate
generate ==
    [n \in AllNames |->
        IF state[n] # NoVersion THEN [version |-> state[n], bottle |-> Platform(n)]
        ELSE NoLock]

\* lock.rs 7-40: nothing is written when no package is installed
Lock(failed) ==
    /\ pc = "idle"
    /\ failed => "IoError" \in faults
    /\ IF InstalledNames = {}
       THEN result' = "Ok" /\ UNCHANGED lockfile
       ELSE IF failed
            THEN result' = "IoError" /\ UNCHANGED lockfile
            ELSE result' = "Ok" /\ lockfile' = [exists |-> TRUE, packages |-> generate]
    /\ cmd' = "lock"
    /\ pc' = "done"
    /\ UNCHANGED <<catalogVars, hist, resolverVars, planVars, state, cellar, files,
                   prefix, loopIdx, tasks, extracted_packages, failed_packages, instIdx,
                   installLog, installerFailed>>

Locked == {n \in AllNames : lockfile.packages[n] # NoLock}

\* sync.rs 55-60
NeedsInstall(name) ==
    \/ state[name] = NoVersion
    \/ state[name] # lockfile.packages[name].version
    \/ Platform(name) # lockfile.packages[name].bottle

\* sync.rs 89-166: the checks of one package, then its task is spawned; the first
\* check that fails returns from sync
RECURSIVE SyncSpawnLoop(_, _, _)
SyncSpawnLoop(order, i, spawned) ==
    IF i > Len(order) THEN [err |-> "none", spawned |-> spawned]
    ELSE LET name == order[i] IN
         IF name \notin DOMAIN deps
         THEN [err |-> "FormulaNotFound", spawned |-> spawned]
         ELSE IF StableVersion(name) # lockfile.packages[name].version
              THEN [err |-> "LockfileError", spawned |-> spawned]
              ELSE IF ~has_bottle[name]
                   THEN [err |-> "BottleNotAvailable", spawned |-> spawned]
                   ELSE SyncSpawnLoop(order, i + 1, spawned \cup {name})

\* sync.rs 15-166; `order` is the order in which the HashMap of the lockfile is walked
SyncStart(order) ==
    /\ pc = "idle"
    /\ cmd' = "sync"
    /\ order \in Perms({n \in Locked : NeedsInstall(n)})
    /\ IF ~lockfile.exists
       THEN /\ pc' = "done" /\ result' = "LockfileError"
            /\ UNCHANGED <<all_to_install, tasks>>
       ELSE IF Locked = {} \/ order = <<>>
            THEN /\ pc' = "done" /\ result' = "Ok"
                 /\ UNCHANGED <<all_to_install, tasks>>
            ELSE LET out == SyncSpawnLoop(order, 1, {}) IN
                 /\ all_to_install' = order
                 /\ IF out.err # "none"
                    THEN /\ pc' = "done" /\ result' = out.err
                         /\ tasks' = [n \in DOMAIN tasks |->
                                         IF n \in out.spawned THEN "cancelled" ELSE "none"]
                    ELSE /\ pc' = "sync" /\ result' = "none"
                         /\ tasks' = [n \in DOMAIN tasks |->
                                         IF n \in out.spawned THEN "waiting" ELSE "none"]
    /\ UNCHANGED <<catalogVars, hist, lockfile, resolverVars, package_names,
                   build_from_source, dry_run, installed, already_installed, errors,
                   cellarAtStart, state, cellar, files, prefix, loopIdx,
                   extracted_packages, failed_packages, instIdx, installLog,
                   installerFailed>>

\* sync.rs 168-183: join_all; the first task error in task order is returned.  The
\* loop that follows (196-224) is the installer loop of install.
SyncJoin ==
    /\ pc = "sync"
    /\ \A n \in Spawned : tasks[n] \in Settled
    /\ LET failedNames == InOrder({n \in Spawned : ~IsExtracted(tasks[n])}, all_to_install)
       IN IF failedNames # <<>>
          THEN /\ pc' = "done" /\ result' = tasks[failedNames[1]]
               /\ UNCHANGED extracted_packages
          ELSE /\ pc' = "installer" /\ result' = "none"
               /\ extracted_packages' = all_to_install
    /\ UNCHANGED <<catalogVars, hist, lockfile, resolverVars, planVars, state, cellar,
                   files, prefix, cmd, loopIdx, tasks, failed_packages, instIdx,
                   installLog, installerFailed>>

(***************************************************************************)
(* src/install.rs, InstallState::sync_from_cellar (164-208) and            *)
(* scan_cellar_and_update (210-257); src/commands/outdated.rs and          *)
(* upgrade.rs, get_outdated_packages (271-274), which runs it.             *)
(***************************************************************************)
\* 229, 236-237: versions.sort() orders the names of the version directories
VersionOrder == <<"v0", "v1">>

Rank(v) == CHOOSE i \in 1..Len(VersionOrder) : VersionOrder[i] = v

\* 236-238: versions.last() after the sort
Latest(vs) == CHOOSE v \in vs : \A w \in vs : Rank(w) <= Rank(v)

VersionDirs(name, c) == {d[2] : d \in {e \in c : e[1] = name}}

\* The Cellar alone decides the entry: a record without a directory is dropped.
ScanEntryRebuilt(packages, name, c) ==
    IF VersionDirs(name, c) = {} THEN NoVersion ELSE Latest(VersionDirs(name, c))

\* 220-254: a name that is recorded is skipped; a directory with a version
\* directory is recorded at its last version
ScanEntry(packages, name, c) ==
    IF packages[name] # NoVersion THEN packages[name]
    ELSE IF VersionDirs(name, c) = {} THEN NoVersion
         ELSE Latest(VersionDirs(name, c))

scan_cellar_and_update(packages, c) ==
    [n \in DOMAIN packages |-> ScanEntry(packages, n, c)]

\* 164-208: load, scan, save
sync_from_cellar(packages, c) == scan_cellar_and_update(packages, c)

\* outdated.rs 8-46 with get_outdated_packages: the install state is reconciled with
\* the Cellar, then the outdated packages are listed; `failed`: the save fails
outdated(failed) ==
    /\ pc = "idle"
    /\ failed => "IoError" \in faults
    /\ IF failed
       THEN result' = "IoError" /\ UNCHANGED state
       ELSE result' = "Ok" /\ state' = sync_from_cellar(state, cellar)
    /\ cmd' = "outdated"
    /\ pc' = "done"
    /\ UNCHANGED <<catalogVars, hist, lockfile, resolverVars, planVars, cellar, files,
                   prefix, loopIdx, tasks, extracted_packages, failed_packages, instIdx,
                   installLog, installerFailed>>

(***************************************************************************)
(* src/commands/upgrade.rs, upgrade (20-33), upgrade_all (35-124),         *)
(* upgrade_single (126-177), upgrade_formula_internal (226-252).  The      *)
(* command calls uninstall and install for each formula it upgrades.       *)
(***************************************************************************)
NoUpgrade == [active |-> FALSE, all |-> FALSE, dry |-> FALSE, queue |-> <<>>, idx |-> 1,
              upgraded |-> <<>>, failed |-> <<>>]

NoUpgrades == upg = NoUpgrade

\* What no step of upgrade itself changes.
upgradeFrame ==
    <<deps, has_bottle, bottle_files, faults, cacheVars, provides, relocVars, tap, ver,
      hist, lockfile, resolverVars, build_from_source, installed, all_to_install,
      already_installed, errors, cellarAtStart, loopIdx, tasks, extracted_packages,
      failed_packages, instIdx, installLog, installerFailed>>

\* 283-295, 320: the recorded formulae whose version is not the catalog's stable
\* version, sorted by name
OutdatedPackages(packages) ==
    SetToSeq({n \in DOMAIN deps : packages[n] \notin {NoVersion, StableVersion(n)}})

\* 20-69: upgrade_all reconciles the install state with the Cellar before it looks
\* at dry_run; `failed`: that save fails
upgrade(packages, dry, failed) ==
    /\ pc = "idle"
    /\ failed => ("IoError" \in faults /\ packages = <<>>)
    /\ cmd' = "upgrade"
    /\ package_names' = packages
    /\ dry_run' = dry
    /\ IF packages # <<>>
       THEN /\ pc' = "upgrade" /\ result' = "none"
            /\ upg' = [NoUpgrade EXCEPT !.active = TRUE, !.dry = dry, !.queue = packages]
            /\ UNCHANGED state
       ELSE IF failed
            THEN pc' = "done" /\ result' = "IoError" /\ UNCHANGED <<state, upg>>
            ELSE LET synced == sync_from_cellar(state, cellar) IN
                 /\ state' = synced
                 /\ IF OutdatedPackages(synced) = <<>> \/ dry
                    THEN pc' = "done" /\ result' = "Ok" /\ UNCHANGED upg
                    ELSE /\ pc' = "upgrade" /\ result' = "none"
                         /\ upg' = [NoUpgrade EXCEPT !.active = TRUE, !.all = TRUE,
                                                     !.queue = OutdatedPackages(synced)]
    /\ UNCHANGED <<upgradeFrame, cellar, files, prefix>>

\* 126-177: one named package; a name that is not recorded is looked for in the
\* Cellar, which saves the install state; `failed`: that save fails
upgrade_single(failed) ==
    /\ pc = "upgrade" /\ ~upg.all /\ upg.idx <= Len(upg.queue)
    /\ LET name == upg.queue[upg.idx]
           synced == IF state[name] = NoVersion THEN sync_from_cellar(state, cellar)
                     ELSE state
       IN
       /\ failed => ("IoError" \in faults /\ state[name] = NoVersion)
       /\ IF failed
          THEN /\ pc' = "done" /\ result' = "IoError" /\ upg' = NoUpgrade
               /\ UNCHANGED state
          ELSE /\ state' = synced
               /\ IF synced[name] = NoVersion
                  THEN pc' = "done" /\ result' = "NotInstalled" /\ upg' = NoUpgrade
                  ELSE IF name \notin DOMAIN deps
                       THEN pc' = "done" /\ result' = "FormulaNotFound" /\ upg' = NoUpgrade
                       ELSE IF synced[name] = StableVersion(name) \/ upg.dry
                            THEN /\ upg' = [upg EXCEPT !.idx = @ + 1]
                                 /\ UNCHANGED <<pc, result>>
                            ELSE pc' = "upgrade_formula" /\ UNCHANGED <<upg, result>>
    /\ UNCHANGED <<upgradeFrame, cellar, files, prefix, cmd, package_names, dry_run>>

\* 88-103 and 176: what upgrade does with an Err of upgrade_formula_internal
Failed(name) ==
    IF upg.all
    THEN pc' = "upgrade" /\ upg' = [upg EXCEPT !.failed = Append(@, name), !.idx = @ + 1]
    ELSE pc' = "done" /\ upg' = NoUpgrade

\* 232: uninstall::uninstall(cache, formula_name, false, false).await?
upgrade_formula_internal(confirm, stage) ==
    /\ \/ pc = "upgrade_formula"
       \/ pc = "upgrade" /\ upg.all /\ upg.idx <= Len(upg.queue)
    /\ LET name == upg.queue[upg.idx] IN
       /\ uninstall(name, FALSE, confirm, stage)
       /\ IF result' = "Ok"
          THEN pc' = "upgrade_install" /\ UNCHANGED upg
          ELSE Failed(name)
    /\ UNCHANGED <<upgradeFrame, cmd, package_names, dry_run>>

\* 240-249: install::install(cache, &[formula_name], false, false, ...)
UpgradeInstall ==
    /\ pc = "upgrade_install"
    /\ install(<<upg.queue[upg.idx]>>, FALSE, FALSE)

\* 94-98, 249-251: install has returned; an Ok is reported as "upgraded"
UpgradeReturn ==
    /\ pc = "done" /\ upg.active
    /\ LET name == upg.queue[upg.idx] IN
       IF result = "Ok"
       THEN /\ pc' = "upgrade"
            /\ upg' = [upg EXCEPT !.upgraded = Append(@, name), !.idx = @ + 1]
       ELSE Failed(name)
    /\ cmd' = "upgrade"
    /\ UNCHANGED <<upgradeFrame, state, cellar, files, prefix, package_names, dry_run,
                   result>>

\* 29-31, 106-123: the loop is over, upgrade returns Ok
UpgradeDone ==
    /\ pc = "upgrade" /\ upg.idx > Len(upg.queue)
    /\ pc' = "done" /\ result' = "Ok"
    /\ upg' = NoUpgrade
    /\ package_names' = IF upg.all THEN <<>> ELSE upg.queue
    /\ dry_run' = upg.dry
    /\ UNCHANGED <<upgradeFrame, state, cellar, files, prefix, cmd>>

(***************************************************************************)
(* src/bottle.rs, BottleDownloader::relocate_bottle (143-297).  A file is   *)
(* its bytes, one string for each byte, and its permission bits.           *)
(***************************************************************************)
NUL == "\\0"

\* 172
ELFMagic == <<"\\x7f", "E", "L", "F">>

PrefixPlaceholder ==
    <<"@", "@", "H", "O", "M", "E", "B", "R", "E", "W", "_", "P", "R", "E", "F", "I",
      "X", "@", "@">>

CellarPlaceholder ==
    <<"@", "@", "H", "O", "M", "E", "B", "R", "E", "W", "_", "C", "E", "L", "L", "A",
      "R", "@", "@">>

\* Only the first placeholder is looked for.
PlaceholdersPrefixOnly == <<PrefixPlaceholder>>

\* 144
Placeholders == <<PrefixPlaceholder, CellarPlaceholder>>

\* 145: format!("{}/Cellar", prefix)
Cellar(p) == p \o <<"/", "C", "e", "l", "l", "a", "r">>

\* 190-194
Replacement(placeholder, p) ==
    IF placeholder = CellarPlaceholder THEN Cellar(p) ELSE p

\* 184, 246: 0o200
OwnerWrite == 128

\* 184: perms.mode() | 0o200
Widen(mode) == IF (mode \div OwnerWrite) % 2 = 1 THEN mode ELSE mode + OwnerWrite

\* 172: content.len() >= 4 && &content[0..4] == b"\x7fELF"
IsELF(content) == Len(content) >= 4 /\ SubSeq(content, 1, 4) = ELFMagic

Padding(n) == [k \in 1..n |-> NUL]

\* 200-212: what is spliced over the placeholder
Spliced(placeholder, replacement) ==
    IF Len(placeholder) >= Len(replacement)
    THEN replacement \o Padding(Len(placeholder) - Len(replacement))
    ELSE replacement

\* Vec::splice over content[i .. i + n), positions counted from 1
Splice(content, i, n, new) ==
    SubSeq(content, 1, i - 1) \o new \o SubSeq(content, i + n, Len(content))

\* 197-217: the scan for one placeholder, from position i
RECURSIVE ScanLoop(_, _, _, _, _)
ScanLoop(content, modified, i, placeholder, replacement) ==
    IF i + Len(placeholder) - 1 > Len(content)
    THEN [content |-> content, modified |-> modified]
    ELSE IF SubSeq(content, i, i + Len(placeholder) - 1) = placeholder
         THEN ScanLoop(Splice(content, i, Len(placeholder),
                              Spliced(placeholder, replacement)),
                       TRUE, i + Len(placeholder), placeholder, replacement)
         ELSE ScanLoop(content, modified, i + 1, placeholder, replacement)

\* 188-218: one scan for each placeholder, in the order of the array
RECURSIVE PlaceholderLoop(_, _, _, _)
PlaceholderLoop(content, modified, k, p) ==
    IF k > Len(Placeholders) THEN [content |-> content, modified |-> modified]
    ELSE LET r == ScanLoop(content, modified, 1, Placeholders[k],
                           Replacement(Placeholders[k], p))
         IN PlaceholderLoop(r.content, r.modified, k + 1, p)

\* 230-297: without patchelf the file is left alone; with it the mode is widened,
\* patchelf is run on the file (its failures are ignored) and the mode is set back.
\* What patchelf writes into the binary is not followed.
relocate_elf(f, p, patchelf) ==
    IF ~patchelf THEN [file |-> f, result |-> "Ok"]
    ELSE LET widened == [f EXCEPT !.mode = Widen(f.mode)]
         IN [file |-> [widened EXCEPT !.mode = f.mode], result |-> "Ok"]

\* 166-228.  `readable`: fs::read succeeds; `write_failed`: fs::write fails
relocate_file(f, p, readable, write_failed, patchelf) ==
    IF ~readable THEN [file |-> f, result |-> "Ok"]
    ELSE IF IsELF(f.content) THEN relocate_elf(f, p, patchelf)
    ELSE LET widened == [f EXCEPT !.mode = Widen(f.mode)]
             r == PlaceholderLoop(f.content, FALSE, 1, p)
         IN IF ~r.modified THEN [file |-> widened, result |-> "Ok"]
            ELSE IF write_failed THEN [file |-> widened, result |-> "IoError"]
            ELSE [file |-> [content |-> r.content, mode |-> f.mode], result |-> "Ok"]

\* 150-164: the walk over a tree whose only entry is the regular file
relocate_dir(f, p, readable, write_failed, patchelf) ==
    relocate_file(f, p, readable, write_failed, patchelf)

NoCall == [status |-> "none", prefix |-> <<>>, before |-> [content |-> <<>>, mode |-> 0]]

\* 143-148.  The tree was written by the extraction that precedes the call, so the
\* process can read its file.
relocate_bottle(p, write_failed, patchelf) ==
    /\ pc = "idle"
    /\ reloc.status = "none"
    /\ write_failed => "IoError" \in faults
    /\ LET r == relocate_dir(tree, p, TRUE, write_failed, patchelf)
       IN /\ tree' = r.file
          /\ reloc' = [status |-> r.result, prefix |-> p, before |-> tree]
    /\ UNCHANGED <<deps, has_bottle, bottle_files, tap, ver, upg, faults, cacheVars, provides, hist,
                   lockfile,
                   resolverVars, planVars, state, cellar, files, prefix, pc, cmd,
                   loopIdx, tasks, extracted_packages, failed_packages, instIdx,
                   installLog, installerFailed, result>>

\* No tree is being relocated.
NoRelocation ==
    /\ tree = [content |-> <<>>, mode |-> 0]
    /\ reloc = NoCall

(***************************************************************************)
(* src/tap.rs, TapManager (add_tap 220-265, remove_tap 294-320, update_tap *)
(* 331-366) and src/cache.rs, Cache::load_all_formulae (160-191).  One     *)
(* GitHub tap: whether taps.json lists it, the revision checked out under   *)
(* its path, and the cache file taps/<name>.json with the revision it was   *)
(* written from.  `old` marks a cache file written before the last remove   *)
(* or update of the tap.                                                    *)
(***************************************************************************)
NoCacheFile == [rev |-> Absent, old |-> FALSE]

NoTap == [added |-> FALSE, upstream |-> 1, path |-> Absent, cache |-> NoCacheFile,
          loaded |-> NoCacheFile]

\* What no command of the tap changes.
tapFrame ==
    <<deps, has_bottle, bottle_files, ver, upg, faults, cacheVars, provides, relocVars, hist,
      lockfile, resolverVars, planVars, state, cellar, files, prefix, pc, cmd, loopIdx,
      tasks, extracted_packages, failed_packages, instIdx, installLog, installerFailed,
      result>>

\* A cache file that is there was written before the operation that runs now.
Aged(cache) == IF cache.rev = Absent THEN cache ELSE [cache EXCEPT !.old = TRUE]

\* tap.rs 294-320 and 331-366: neither operation touches taps/<name>.json
KeptCache(cache) == Aged(cache)

\* 220-265: the repository is cloned at its current revision and the tap registered
add_tap ==
    /\ pc = "idle"
    /\ ~tap.added
    /\ tap.path = Absent
    /\ tap' = [tap EXCEPT !.added = TRUE, !.path = tap.upstream]
    /\ UNCHANGED tapFrame

\* 294-320: the checkout is removed and the tap taken out of taps.json
remove_tap ==
    /\ pc = "idle"
    /\ tap.added
    /\ tap' = [tap EXCEPT !.added = FALSE, !.path = Absent,
                          !.cache = KeptCache(tap.cache)]
    /\ UNCHANGED tapFrame

\* 331-366: git pull in the checkout
update_tap ==
    /\ pc = "idle"
    /\ tap.added
    /\ tap' = [tap EXCEPT !.path = tap.upstream, !.cache = KeptCache(tap.cache)]
    /\ UNCHANGED tapFrame

\* cache.rs 160-191: the formulae of a registered tap come from its cache file when
\* the file exists, from the checkout otherwise, and the file is then written
load_all_formulae ==
    /\ pc = "idle"
    /\ IF ~tap.added THEN tap' = [tap EXCEPT !.loaded = NoCacheFile]
       ELSE IF tap.cache.rev # Absent THEN tap' = [tap EXCEPT !.loaded = tap.cache]
       ELSE tap' = [tap EXCEPT !.loaded = [rev |-> tap.path, old |-> FALSE],
                               !.cache = [rev |-> tap.path, old |-> FALSE]]
    /\ UNCHANGED tapFrame

\* The repository of the tap gets a new revision.
Push ==
    /\ tap.upstream < MaxRev
    /\ tap' = [tap EXCEPT !.upstream = tap.upstream + 1]
    /\ UNCHANGED tapFrame

\* No custom tap is registered.
NoTaps == tap = NoTap

(***************************************************************************)
(* src/version.rs, BrewVersion (parse 10-25, parse_semver_parts 27-34, cmp  *)
(* 37-57), is_same_or_newer (66-70) and sort_versions (72-78).  A version   *)
(* string is the sequence of its characters.                               *)
(***************************************************************************)
Digits == <<"0", "1", "2", "3", "4", "5", "6", "7", "8", "9">>

\* The characters of the version strings, in the order of their bytes.
Alphabet == <<".">> \o Digits \o <<"_", "a", "b">>

IsDigit(c) == \E i \in 1..Len(Digits) : Digits[i] = c

DigitValue(c) == (CHOOSE i \in 1..Len(Digits) : Digits[i] = c) - 1

\* str::parse of a string of digits
RECURSIVE Number(_)
Number(s) ==
    IF s = <<>> THEN 0
    ELSE 10 * Number(SubSeq(s, 1, Len(s) - 1)) + DigitValue(s[Len(s)])

\* parse() is Ok: the string is not empty and has digits only
IsNumber(s) == s # <<>> /\ \A i \in 1..Len(s) : IsDigit(s[i])

\* 11: version.rfind('_'), 0 when there is none
LastUnderscore(s) ==
    IF \E i \in 1..Len(s) : s[i] = "_"
    THEN CHOOSE i \in 1..Len(s) : s[i] = "_" /\ \A j \in (i + 1)..Len(s) : s[j] # "_"
    ELSE 0

\* 10-25: BrewVersion::parse
parse(version) ==
    LET idx == LastUnderscore(version)
        rev_str == SubSeq(version, idx + 1, Len(version))
    IN IF idx # 0 /\ IsNumber(rev_str)
       THEN [base |-> SubSeq(version, 1, idx - 1), revision |-> Number(rev_str)]
       ELSE [base |-> version, revision |-> 0]

\* 28: s.split('.')
RECURSIVE Split(_, _)
Split(s, part) ==
    IF s = <<>> THEN <<part>>
    ELSE IF Head(s) = "." THEN <<part>> \o Split(Tail(s), <<>>)
    ELSE Split(Tail(s), Append(part, Head(s)))

\* 30: part.chars().take_while(|c| c.is_ascii_digit())
RECURSIVE LeadingDigits(_)
LeadingDigits(part) ==
    IF part = <<>> \/ ~IsDigit(Head(part)) THEN <<>>
    ELSE <<Head(part)>> \o LeadingDigits(Tail(part))

\* 29-32: filter_map, a part without leading digits is dropped
RECURSIVE NumericParts(_)
NumericParts(parts) ==
    IF parts = <<>> THEN <<>>
    ELSE LET numeric == LeadingDigits(Head(parts))
         IN (IF IsNumber(numeric) THEN <<Number(numeric)>> ELSE <<>>)
            \o NumericParts(Tail(parts))

\* 27-34
parse_semver_parts(s) == NumericParts(Split(s, <<>>))

Ordering(a, b) == IF a < b THEN "Less" ELSE IF a > b THEN "Greater" ELSE "Equal"

ByteOf(c) == CHOOSE i \in 1..Len(Alphabet) : Alphabet[i] = c

\* 52: String::cmp, byte by byte, a proper prefix being less
RECURSIVE StrCmp(_, _)
StrCmp(a, b) ==
    IF a = <<>> /\ b = <<>> THEN "Equal"
    ELSE IF a = <<>> THEN "Less"
    ELSE IF b = <<>> THEN "Greater"
    ELSE IF Head(a) # Head(b) THEN Ordering(ByteOf(Head(a)), ByteOf(Head(b)))
    ELSE StrCmp(Tail(a), Tail(b))

\* 43: .get(i).copied().unwrap_or(0), positions counted from 1
PartAt(parts, i) == IF i <= Len(parts) THEN parts[i] ELSE 0

\* The parts are compared as strings of digits would be: by their first digit.
PartOrderingByText(a, b) == Ordering(a % 10, b % 10)

\* 45: a.cmp(&b)
PartOrdering(a, b) == Ordering(a, b)

\* 42-49
RECURSIVE PartsLoop(_, _, _, _)
PartsLoop(self_parts, other_parts, i, max_len) ==
    IF i > max_len THEN "Equal"
    ELSE LET ord == PartOrdering(PartAt(self_parts, i), PartAt(other_parts, i))
         IN IF ord = "Equal" THEN PartsLoop(self_parts, other_parts, i + 1, max_len)
            ELSE ord

Max(a, b) == IF a >= b THEN a ELSE b

\* 37-57: Ord::cmp
cmp(self, other) ==
    LET self_parts == parse_semver_parts(self.base)
        other_parts == parse_semver_parts(other.base)
        ord == PartsLoop(self_parts, other_parts, 1, Max(Len(self_parts), Len(other_parts)))
    IN IF ord # "Equal" THEN ord
       ELSE IF Len(self_parts) # Len(other_parts) \/ self.base # other.base
            THEN StrCmp(self.base, other.base)
            ELSE Ordering(self.revision, other.revision)

\* 66-70: installed_v >= latest_v
is_same_or_newer(installed_s, latest_s) ==
    cmp(parse(installed_s), parse(latest_s)) # "Less"

\* 72-78: a stable sort by cmp of the parsed strings; v goes after the last element
\* that is not greater than it
RECURSIVE InsertSorted(_, _)
InsertSorted(sorted, v) ==
    IF sorted = <<>> THEN <<v>>
    ELSE IF cmp(parse(sorted[Len(sorted)]), parse(v)) # "Greater" THEN Append(sorted, v)
    ELSE Append(InsertSorted(SubSeq(sorted, 1, Len(sorted) - 1), v), sorted[Len(sorted)])

RECURSIVE sort_versions(_)
sort_versions(versions) ==
    IF versions = <<>> THEN <<>>
    ELSE InsertSorted(sort_versions(SubSeq(versions, 1, Len(versions) - 1)),
                      versions[Len(versions)])

NoOutput == [op |-> "none", newer |-> FALSE, sorted |-> <<>>]

versionFrame ==
    <<deps, has_bottle, bottle_files, tap, upg, faults, cacheVars, provides, relocVars, hist,
      lockfile, resolverVars, planVars, state, cellar, files, prefix, pc, cmd, loopIdx,
      tasks, extracted_packages, failed_packages, instIdx, installLog, installerFailed,
      result>>

\* is_same_or_newer is called on the first two strings
SameOrNewer ==
    /\ ver.out.op = "none"
    /\ ver' = [ver EXCEPT !.out = [op |-> "is_same_or_newer",
                                   newer |-> is_same_or_newer(ver.list[1], ver.list[2]),
                                   sorted |-> <<>>]]
    /\ UNCHANGED versionFrame

\* sort_versions is called on the strings
SortVersions ==
    /\ ver.out.op = "none"
    /\ ver' = [ver EXCEPT !.out = [op |-> "sort_versions", newer |-> FALSE,
                                   sorted |-> sort_versions(ver.list)]]
    /\ UNCHANGED versionFrame

\* No version is being compared.
NoVersions == ver = [list |-> <<>>, out |-> NoOutput]

(***************************************************************************)
(* src/main.rs, main (190-284): every command is one process; when it has  *)
(* returned the process exits and only the files remain.                   *)
(***************************************************************************)
\* 262-283: an Err from the command prints and exits with 1, an Ok exits with 0
ExitCode == IF result = "Ok" THEN 0 ELSE 1

FreshRun ==
    /\ pc = "idle"
    /\ cmd = "none"
    /\ package_names = <<>>
    /\ build_from_source = FALSE
    /\ dry_run = FALSE
    /\ installed = {}
    /\ all_to_install = <<>>
    /\ already_installed = <<>>
    /\ errors = <<>>
    /\ loopIdx = 1
    /\ tasks = NoTasks
    /\ extracted_packages = <<>>
    /\ failed_packages = <<>>
    /\ instIdx = 1
    /\ installLog = <<>>
    /\ cellarAtStart = {}
    /\ installerFailed = FALSE
    /\ result = "none"
    /\ res_target = UnknownName
    /\ res_installed = {}
    /\ res = NoResult

ExitRun ==
    /\ pc = "done"
    /\ ~upg.active
    /\ pc' = "idle"
    /\ cmd' = "none"
    /\ package_names' = <<>>
    /\ build_from_source' = FALSE
    /\ dry_run' = FALSE
    /\ installed' = {}
    /\ all_to_install' = <<>>
    /\ already_installed' = <<>>
    /\ errors' = <<>>
    /\ loopIdx' = 1
    /\ tasks' = NoTasks
    /\ extracted_packages' = <<>>
    /\ failed_packages' = <<>>
    /\ instIdx' = 1
    /\ installLog' = <<>>
    /\ cellarAtStart' = {}
    /\ installerFailed' = FALSE
    /\ result' = "none"
    /\ res_target' = UnknownName
    /\ res_installed' = {}
    /\ res' = NoResult
    /\ UNCHANGED <<catalogVars, state, cellar, files, prefix, lockfile>>

ProcessExit == ExitRun /\ UNCHANGED hist

NoCommand == [cmd |-> "none", names |-> <<>>, result |-> "none", dry_run |-> FALSE]

\* The same exit, with the history of the last two commands kept.
ProcessExitTracked ==
    /\ ExitRun
    /\ hist' = [before |-> hist.start,
                prev |-> [cmd |-> cmd, names |-> package_names, result |-> result,
                          dry_run |-> dry_run],
                start |-> Disk]

\* Nothing is in the prefix and the bottles have no entries to link.
NoLinks ==
    /\ provides = [n \in DOMAIN deps |-> {}]
    /\ files = {}
    /\ prefix = [p \in Paths |-> NoEntry]
    /\ hist = [before |-> Disk, prev |-> NoCommand, start |-> Disk]

(***************************************************************************)
(* Specification of the commands: a new installation (nothing installed),  *)
(* a catalog of three formulae, then any sequence of install and uninstall *)
(* commands.                                                               *)
(***************************************************************************)
AllFaults == FetchFailures \cup SourceFailures

Chain == [n \in CatalogNames |-> IF n = 3 THEN {} ELSE {n + 1}]
Cycle == [n \in CatalogNames |-> IF n = 1 THEN {2} ELSE IF n = 2 THEN {1} ELSE {UnknownName}]
Fan == [n \in CatalogNames |-> IF n = 1 THEN {2, 3} ELSE {}]
Shared == [n \in CatalogNames |-> IF n = 3 THEN {} ELSE {3}]
Catalogs == {Chain, Cycle, Fan, Shared}

\* The command lines: some names, known to the catalog or not, each given once.
Requests == {s \in SeqsUpTo(AllNames, MaxReq) : s # <<>> /\ NoDuplicates(s)}

Init ==
    /\ deps \in Catalogs
    /\ has_bottle \in [CatalogNames -> BOOLEAN]
    /\ PlatformBottles
    /\ faults = AllFaults
    /\ state = [n \in AllNames |-> NoVersion]
    /\ cellar = {}
    /\ CachePresent
    /\ NoLinks
    /\ FreshRun
    /\ NoTaps
    /\ NoUpgrades
    /\ NoVersions
    /\ lockfile = NoLockfile
    /\ NoRelocation

Install ==
    \E names \in Requests, dry \in BOOLEAN, bfs \in BOOLEAN :
        InstallStart(names, dry, bfs)

Fetch == \E p \in DOMAIN tasks : TaskAcquire(p) \/ \E o \in Settled : TaskFinish(p, o)

Source ==
    \/ SourceBegin
    \/ \E o \in SourceFetchFailures \cup {"ok"} : SourceFetched(o)
    \/ \E o \in {"BuildError"} \cup InstallerStages : SourceFinish(o)

Installer == \E stage \in InstallerStages : InstallerStep(stage)

UninstallCmd ==
    \E name \in AllNames, dry \in BOOLEAN, confirm \in {"yes", "no"},
       stage \in UninstallStages : Uninstall(name, dry, confirm, stage)

Next ==
    \/ Install
    \/ SpawnTask
    \/ Fetch
    \/ Source
    \/ JoinAll
    \/ Installer
    \/ InstallDone
    \/ UninstallCmd
    \/ ProcessExit

Spec == Init /\ [][Next]_vars

(***************************************************************************)
(* Specification of the resolver: any catalog of three formulae with at    *)
(* most MaxDeps dependencies each (possibly one the catalog does not       *)
(* know), any installed set; then one call of resolve_dependencies, or one *)
(* dry run of install, which ends after the validation loop.               *)
(***************************************************************************)
DepSets == {S \in SUBSET AllNames : Cardinality(S) <= MaxDeps}

\* The command lines of formula names, a name possibly given more than once.
FormulaRequests == SeqsUpTo(CatalogNames, MaxReq) \ {<<>>}

InitResolve ==
    /\ deps \in [CatalogNames -> DepSets]
    /\ has_bottle = [n \in CatalogNames |-> TRUE]
    /\ PlatformBottles
    /\ faults = {}
    /\ state \in [AllNames -> {NoVersion, "v1"}]
    /\ cellar = {<<n, state[n]>> : n \in InstalledNames}
    /\ CachePresent
    /\ NoLinks
    /\ FreshRun
    /\ NoTaps
    /\ NoUpgrades
    /\ NoVersions
    /\ lockfile = NoLockfile
    /\ NoRelocation

NextResolve ==
    /\ cmd = "none"
    /\ \/ \E target \in CatalogNames : ResolveCall(target)
       \/ \E names \in FormulaRequests : InstallStart(names, TRUE, FALSE)

SpecResolve == InitResolve /\ [][NextResolve]_vars

(***************************************************************************)
(* Specification of the fetch tasks: one install run of NumFetch formulae  *)
(* without dependencies, at most one of them without a bottle.             *)
(***************************************************************************)
FetchNames == 1..NumFetch

FetchRequest == [i \in FetchNames |-> i]

InitFetch ==
    /\ deps = [n \in FetchNames |-> {}]
    /\ has_bottle \in {[n \in FetchNames |-> n # k] : k \in {0, NumFetch}}
    /\ PlatformBottles
    /\ faults = {"ChecksumMismatch"}
    /\ state = [n \in FetchNames |-> NoVersion]
    /\ cellar = {}
    /\ CachePresent
    /\ NoLinks
    /\ FreshRun
    /\ NoTaps
    /\ NoUpgrades
    /\ NoVersions
    /\ lockfile = NoLockfile
    /\ NoRelocation

NextFetch ==
    \/ InstallStart(FetchRequest, FALSE, FALSE)
    \/ SpawnTask
    \/ Fetch
    \/ Source
    \/ JoinAll
    \/ Installer
    \/ InstallDone

SpecFetch == InitFetch /\ [][NextFetch]_vars

(***************************************************************************)
(* The fetch tasks under fairness: the runtime keeps polling the tasks it  *)
(* has spawned and the semaphore hands a permit that is free to a task     *)
(* that waits, so a step that can be taken is taken; every download,       *)
(* verification and extraction ends.                                       *)
(***************************************************************************)
SpecFetchFair ==
    /\ InitFetch
    /\ [][NextFetch]_vars
    /\ WF_vars(SpawnTask)
    /\ \A p \in FetchNames : WF_vars(TaskAcquire(p))
    /\ \A p \in FetchNames : WF_vars(\E o \in Settled : TaskFinish(p, o))
    /\ WF_vars(Source)
    /\ WF_vars(JoinAll)
    /\ WF_vars(Installer)
    /\ WF_vars(InstallDone)

(***************************************************************************)
(* Specification of the catalog cache: no cache at first, then any         *)
(* sequence of update commands and of commands that load a catalog, with   *)
(* any answers of the server; a catalog file may disappear in between.     *)
(***************************************************************************)
InitUpdate ==
    /\ deps = Chain
    /\ has_bottle = [n \in CatalogNames |-> TRUE]
    /\ PlatformBottles
    /\ faults = {"HttpError", "IoError"}
    /\ state = [n \in AllNames |-> NoVersion]
    /\ cellar = {}
    /\ CacheEmpty
    /\ NoLinks
    /\ FreshRun
    /\ NoTaps
    /\ NoUpgrades
    /\ NoVersions
    /\ lockfile = NoLockfile
    /\ NoRelocation

\* The answers auto_init gets and the write of it that fails: they are drawn only
\* when auto_init runs.
NoAnswers == [k \in CatalogKinds |-> [status |-> "200", etag |-> FALSE, last_modified |-> FALSE]]

Reloads(rs) ==
    /\ \A k \in CatalogKinds : rs[k].status # "err"
    /\ \E k \in CatalogKinds : rs[k].status = "304" /\ body[k] = Absent

UpdateCmd ==
    \E rs \in Answers({"200", "304", "err"}), stage \in UpdateStages :
        \E ars \in IF Reloads(rs) THEN Answers({"200", "err"}) ELSE {NoAnswers},
           istage \in IF Reloads(rs) THEN AutoInitStages ELSE {"ok"} :
            Update(rs, ars, stage, istage)

LoadCmd ==
    \E kind \in CatalogKinds, ars \in Answers({"200", "err"}), istage \in AutoInitStages :
        LoadCatalog(kind, ars, istage)

CacheCleaned == \E kind \in CatalogKinds : CacheFileRemoved(kind)

NextUpdate ==
    \/ UpdateCmd
    \/ LoadCmd
    \/ CacheCleaned
    \/ ProcessExit

SpecUpdate == InitUpdate /\ [][NextUpdate]_vars

(***************************************************************************)
(* Specification of the links: formulae x (1), y (2) and z (3); x depends  *)
(* on z; x and y both have bin/tool, x and z both have lib/libz.  The      *)
(* prefix starts empty or with a regular file at bin/tool.  Then any       *)
(* sequence of install and uninstall commands without failures of the      *)
(* environment; between two commands a file under the Cellar may be        *)
(* deleted by hand.                                                        *)
(***************************************************************************)
LinkDeps == [n \in CatalogNames |-> IF n = 1 THEN {3} ELSE {}]

LinkProvides ==
    [n \in CatalogNames |->
        IF n = 1 THEN {"bin/tool", "lib/libz"}
        ELSE IF n = 2 THEN {"bin/tool"} ELSE {"lib/libz"}]

CleanDisk ==
    [state |-> [n \in AllNames |-> NoVersion], cellar |-> {}, files |-> {},
     prefix |-> [p \in Paths |-> NoEntry]]

InitialDisks ==
    { CleanDisk,
      [CleanDisk EXCEPT !.prefix["bin/tool"] = RegularFile] }

InitLink ==
    /\ deps = LinkDeps
    /\ has_bottle = [n \in CatalogNames |-> TRUE]
    /\ PlatformBottles
    /\ faults = {}
    /\ provides = LinkProvides
    /\ \E d \in InitialDisks :
          /\ state = d.state
          /\ cellar = d.cellar
          /\ files = d.files
          /\ prefix = d.prefix
          /\ hist = [before |-> d, prev |-> NoCommand, start |-> d]
    /\ CachePresent
    /\ FreshRun
    /\ NoTaps
    /\ NoUpgrades
    /\ NoVersions
    /\ lockfile = NoLockfile
    /\ NoRelocation

LinkRequests == {<<n>> : n \in CatalogNames}

LinkInstall == \E names \in LinkRequests : InstallStart(names, FALSE, FALSE)

\* A file under the Cellar is deleted by hand while no command runs.
HandDelete ==
    /\ pc = "idle"
    /\ \E f \in files :
          /\ files' = files \ {f}
          /\ hist' = [hist EXCEPT !.start = [Disk EXCEPT !.files = files \ {f}],
                                  !.prev = NoCommand]
    /\ UNCHANGED <<catalogVars, lockfile, resolverVars, planVars, state, cellar, prefix, pc,
                   cmd, loopIdx, tasks, extracted_packages, failed_packages, instIdx,
                   installLog, installerFailed, result>>

NextLink ==
    \/ LinkInstall
    \/ SpawnTask
    \/ Fetch
    \/ JoinAll
    \/ Installer
    \/ InstallDone
    \/ UninstallCmd
    \/ HandDelete
    \/ ProcessExitTracked

SpecLink == InitLink /\ [][NextLink]_vars

(***************************************************************************)
(* Specification of lock and sync: formulae a, b (with bottles) and c      *)
(* (without) at version v1; each may be installed at v1 or at the version  *)
(* v0 the catalog had before; ./wax.lock is missing or is any lockfile     *)
(* written on this platform, then or now.  Then any sequence of lock and   *)
(* sync commands.                                                          *)
(***************************************************************************)
EarlierVersion == "v0"

Versions == {EarlierVersion, StableVersion(1)}

Lockfiles ==
    {NoLockfile} \cup
    {[exists |-> TRUE,
      packages |-> [n \in AllNames |->
                       IF v[n] = NoVersion THEN NoLock
                       ELSE [version |-> v[n], bottle |-> CurrentPlatform]]] :
         v \in {w \in [AllNames -> Versions \cup {NoVersion}] :
                   w[UnknownName] # EarlierVersion}}

InitSync ==
    /\ deps = Chain
    /\ has_bottle = [n \in CatalogNames |-> n # 3]
    /\ PlatformBottles
    /\ faults = {"ChecksumMismatch", "IoError"}
    /\ state \in {w \in [AllNames -> Versions \cup {NoVersion}] : w[UnknownName] = NoVersion}
    /\ cellar = {<<n, state[n]>> : n \in InstalledNames}
    /\ CachePresent
    /\ NoLinks
    /\ FreshRun
    /\ NoTaps
    /\ NoUpgrades
    /\ NoVersions
    /\ lockfile \in Lockfiles
    /\ NoRelocation

LockCmd == \E failed \in BOOLEAN : Lock(failed)

SyncCmd == \E order \in SeqsUpTo(AllNames, Cardinality(AllNames)) : SyncStart(order)

NextSync ==
    \/ LockCmd
    \/ SyncCmd
    \/ Fetch
    \/ SyncJoin
    \/ Installer
    \/ InstallDone
    \/ ProcessExitTracked

SpecSync == InitSync /\ [][NextSync]_vars

(***************************************************************************)
(* Specification of the install state and the Cellar: formulae a, b (with  *)
(* bottles) and c (built from source), a depends on b and b on c; the      *)
(* environment may fail any write.  Then any sequence of install,          *)
(* uninstall, outdated, lock and sync commands.                            *)
(***************************************************************************)
InitCellar ==
    /\ deps = Chain
    /\ has_bottle = [n \in CatalogNames |-> n # 3]
    /\ PlatformBottles
    /\ faults = {"IoError"}
    /\ state = [n \in AllNames |-> NoVersion]
    /\ cellar = {}
    /\ CachePresent
    /\ NoLinks
    /\ FreshRun
    /\ NoTaps
    /\ NoUpgrades
    /\ NoVersions
    /\ lockfile = NoLockfile
    /\ NoRelocation

OutdatedCmd == \E failed \in BOOLEAN : outdated(failed)

NextCellar ==
    \/ LinkInstall
    \/ SpawnTask
    \/ Fetch
    \/ Source
    \/ JoinAll
    \/ Installer
    \/ InstallDone
    \/ UninstallCmd
    \/ OutdatedCmd
    \/ LockCmd
    \/ SyncCmd
    \/ SyncJoin
    \/ ProcessExitTracked

SpecCellar == InitCellar /\ [][NextCellar]_vars

(***************************************************************************)
(* Specification of upgrade: formulae a, b and c with bottles at version   *)
(* v1, a depends on b and b on c; each may be installed at v1 or at the    *)
(* version v0 the catalog had before; the environment may fail any write.  *)
(* Then any sequence of install, uninstall and upgrade commands.           *)
(***************************************************************************)
InitUpgrade ==
    /\ deps = Chain
    /\ has_bottle = [n \in CatalogNames |-> TRUE]
    /\ PlatformBottles
    /\ faults = {"IoError"}
    /\ state \in {w \in [AllNames -> Versions \cup {NoVersion}] : w[UnknownName] = NoVersion}
    /\ cellar = {<<n, state[n]>> : n \in InstalledNames}
    /\ CachePresent
    /\ NoLinks
    /\ FreshRun
    /\ NoTaps
    /\ NoUpgrades
    /\ NoVersions
    /\ lockfile = NoLockfile
    /\ NoRelocation

UpgradeRequests == {<<>>} \cup {<<n>> : n \in AllNames}

\* The exit of the process, with the disk it leaves kept for the next command.
ProcessExitDisk == ExitRun /\ hist' = [hist EXCEPT !.start = Disk]

NextUpgrade ==
    \/ \E names \in LinkRequests, dry \in BOOLEAN : InstallStart(names, dry, FALSE)
    \/ SpawnTask
    \/ Fetch
    \/ JoinAll
    \/ Installer
    \/ InstallDone
    \/ UninstallCmd
    \/ \E packages \in UpgradeRequests, dry, failed \in BOOLEAN : upgrade(packages, dry, failed)
    \/ \E failed \in BOOLEAN : upgrade_single(failed)
    \/ \E confirm \in {"yes", "no"}, stage \in UninstallStages :
          upgrade_formula_internal(confirm, stage)
    \/ UpgradeInstall
    \/ UpgradeReturn
    \/ UpgradeDone
    \/ ProcessExitDisk

SpecUpgrade == InitUpgrade /\ [][NextUpgrade]_vars

(***************************************************************************)
(* Specification of installs that name casks: formulae a, b and c with     *)
(* bottles, a depends on b and b on c, and one cask; nothing is installed. *)
(* Then any sequence of install commands for formulae, the cask and a name *)
(* that is neither.                                                        *)
(***************************************************************************)
InitCask ==
    /\ deps = Chain
    /\ has_bottle = [n \in CatalogNames |-> TRUE]
    /\ PlatformBottles
    /\ faults = {"ChecksumMismatch"}
    /\ state = [n \in AllNames |-> NoVersion]
    /\ cellar = {}
    /\ CachePresent
    /\ NoLinks
    /\ FreshRun
    /\ NoTaps
    /\ NoUpgrades
    /\ NoVersions
    /\ lockfile = NoLockfile
    /\ NoRelocation

CaskRequests == {s \in SeqsUpTo(AllNames \cup Casks, MaxReq) : s # <<>> /\ NoDuplicates(s)}

NextCask ==
    \/ \E names \in CaskRequests, dry \in BOOLEAN : InstallStart(names, dry, FALSE)
    \/ SpawnTask
    \/ Fetch
    \/ JoinAll
    \/ Installer
    \/ InstallDone
    \/ ProcessExit

SpecCask == InitCask /\ [][NextCask]_vars

(***************************************************************************)
(* Specification of the relocator: an extracted tree with one regular      *)
(* file, text or ELF, with or without placeholders, relocated once under   *)
(* one of the prefixes the program installs to.                            *)
(***************************************************************************)
\* What a file is made of: the placeholders, text, and pieces of a placeholder.
Chunks ==
    {PrefixPlaceholder, CellarPlaceholder, <<"p", "=">>, <<"@", "@">>,
     SubSeq(CellarPlaceholder, 3, Len(CellarPlaceholder))}

RECURSIVE Texts(_)
Texts(n) ==
    IF n = 0 THEN {<<>>}
    ELSE Texts(n - 1) \cup {t \o c : t \in Texts(n - 1), c \in Chunks}

Contents == Texts(MaxChunks) \cup {ELFMagic \o t : t \in Texts(1)}

\* 0o444, 0o555, 0o644, 0o755
Modes == {292, 365, 420, 493}

\* bottle.rs 388-420 (homebrew_prefix) and install.rs 56-61 (~/.local/wax)
Prefixes ==
    {
      <<"/", "o", "p", "t", "/", "h", "o", "m", "e", "b", "r", "e", "w">>,
      <<"/", "u", "s", "r", "/", "l", "o", "c", "a", "l">>,
      <<"/", "h", "o", "m", "e", "/", "l", "i", "n", "u", "x", "b", "r", "e", "w", "/",
        ".", "l", "i", "n", "u", "x", "b", "r", "e", "w">>,
      <<"/", "h", "o", "m", "e", "/", "u", "/", ".", "l", "o", "c", "a", "l", "/", "w",
        "a", "x">>
    }

InitRelocate ==
    /\ deps = Chain
    /\ has_bottle = [n \in CatalogNames |-> TRUE]
    /\ PlatformBottles
    /\ faults = {"IoError"}
    /\ state = [n \in AllNames |-> NoVersion]
    /\ cellar = {}
    /\ CachePresent
    /\ NoLinks
    /\ FreshRun
    /\ NoTaps
    /\ NoUpgrades
    /\ NoVersions
    /\ lockfile = NoLockfile
    /\ tree \in [content : Contents, mode : Modes]
    /\ reloc = NoCall

RelocateCmd ==
    \E p \in Prefixes, write_failed \in BOOLEAN, patchelf \in BOOLEAN :
        relocate_bottle(p, write_failed, patchelf)

NextRelocate == RelocateCmd

SpecRelocate == InitRelocate /\ [][NextRelocate]_vars

(***************************************************************************)
(* Specification of install runs over a catalog part of which cannot be    *)
(* resolved: a and b depend on each other, or a depends on a formula the   *)
(* catalog does not know, and the other formulae have no dependencies.     *)
(* Every formula has a bottle and the environment fails nothing.           *)
(***************************************************************************)
CycleAndFree == [n \in CatalogNames |-> IF n = 1 THEN {2} ELSE IF n = 2 THEN {1} ELSE {}]

MissingAndFree == [n \in CatalogNames |-> IF n = 1 THEN {UnknownName} ELSE {}]

InitErrors ==
    /\ deps \in {CycleAndFree, MissingAndFree}
    /\ has_bottle = [n \in CatalogNames |-> TRUE]
    /\ PlatformBottles
    /\ faults = {}
    /\ state = [n \in AllNames |-> NoVersion]
    /\ cellar = {}
    /\ CachePresent
    /\ NoLinks
    /\ FreshRun
    /\ NoTaps
    /\ NoUpgrades
    /\ NoVersions
    /\ lockfile = NoLockfile
    /\ NoRelocation

SpecErrors == InitErrors /\ [][Next]_vars

(***************************************************************************)
(* Specification of the bottle manifests: each formula's manifest lists    *)
(* any of the tag of this machine, `all` and the tag of another platform.  *)
(* Nothing is installed and the environment fails nothing; then any        *)
(* sequence of install and uninstall commands.                             *)
(***************************************************************************)
Tags == {CurrentPlatform, "all", "other"}

InitPlatform ==
    /\ deps = Chain
    /\ bottle_files \in [CatalogNames -> SUBSET Tags]
    /\ has_bottle = [n \in CatalogNames |-> HasBottle(bottle_files[n])]
    /\ faults = {}
    /\ state = [n \in AllNames |-> NoVersion]
    /\ cellar = {}
    /\ CachePresent
    /\ NoLinks
    /\ FreshRun
    /\ NoTaps
    /\ NoUpgrades
    /\ NoVersions
    /\ lockfile = NoLockfile
    /\ NoRelocation

SpecPlatform == InitPlatform /\ [][Next]_vars

(***************************************************************************)
(* Specification of the taps: one tap is added, updated, removed and added *)
(* again while its repository moves on, and the formulae are loaded in     *)
(* between.                                                                *)
(***************************************************************************)
InitTap ==
    /\ deps = Chain
    /\ has_bottle = [n \in CatalogNames |-> TRUE]
    /\ PlatformBottles
    /\ faults = {}
    /\ state = [n \in AllNames |-> NoVersion]
    /\ cellar = {}
    /\ CachePresent
    /\ NoLinks
    /\ FreshRun
    /\ NoTaps
    /\ NoUpgrades
    /\ NoVersions
    /\ lockfile = NoLockfile
    /\ NoRelocation

NextTap == add_tap \/ remove_tap \/ update_tap \/ load_all_formulae \/ Push

SpecTap == InitTap /\ [][NextTap]_vars

(***************************************************************************)
(* Specification of the version order: three version strings, each a base  *)
(* with or without a revision suffix, are compared and sorted.  The bases  *)
(* are listed with the numbers their components stand for.                 *)
(***************************************************************************)
BaseTable ==
    {
      [text |-> <<"2", ".", "5", "1", ".", "0">>, nums |-> <<2, 51, 0>>],
      [text |-> <<"2", ".", "5", "2", ".", "0">>, nums |-> <<2, 52, 0>>],
      [text |-> <<"2", ".", "9">>, nums |-> <<2, 9>>],
      [text |-> <<"2", ".", "1", "0">>, nums |-> <<2, 10>>],
      [text |-> <<"2">>, nums |-> <<2>>],
      [text |-> <<"2", ".", "0">>, nums |-> <<2, 0>>],
      [text |-> <<"1", ".", "2", "a">>, nums |-> <<1, 2>>],
      [text |-> <<"1", ".", "2", "b">>, nums |-> <<1, 2>>]
    }

RECURSIVE DigitsOf(_)
DigitsOf(n) ==
    IF n < 10 THEN <<Digits[n + 1]>>
    ELSE Append(DigitsOf(n \div 10), Digits[(n % 10) + 1])

\* The string of a base at a revision: the base alone at revision 0
WithRevision(base, n) == IF n = 0 THEN base ELSE base \o <<"_">> \o DigitsOf(n)

VersionStrings == {WithRevision(b.text, n) : b \in BaseTable, n \in 0..MaxRevision}

InitVersion ==
    /\ deps = Chain
    /\ has_bottle = [n \in CatalogNames |-> TRUE]
    /\ PlatformBottles
    /\ faults = {}
    /\ state = [n \in AllNames |-> NoVersion]
    /\ cellar = {}
    /\ CachePresent
    /\ NoLinks
    /\ FreshRun
    /\ NoTaps
    /\ NoUpgrades
    /\ lockfile = NoLockfile
    /\ NoRelocation
    /\ ver \in [list : [1..3 -> VersionStrings], out : {NoOutput}]

NextVersion == SameOrNewer \/ SortVersions

SpecVersion == InitVersion /\ [][NextVersion]_vars

(***************************************************************************)
(* Properties.                                                             *)
(***************************************************************************)
\* The names reachable from t through dependencies, t included.
TransitiveDeps(t) ==
    LET F[i \in 0..Cardinality(DOMAIN deps) + 1] ==
            IF i = 0 THEN {t}
            ELSE F[i - 1] \cup UNION {deps[n] : n \in F[i - 1] \cap DOMAIN deps}
    IN F[Cardinality(DOMAIN deps) + 1]

\* The not-installed names reachable from t through not-installed names.
UnmetClosure(t, inst) ==
    LET F[i \in 0..Cardinality(DOMAIN deps) + 1] ==
            IF i = 0 THEN {t} \ inst
            ELSE F[i - 1] \cup (UNION {deps[n] : n \in F[i - 1] \cap DOMAIN deps} \ inst)
    IN F[Cardinality(DOMAIN deps) + 1]

\* The names of U reachable from n in one step or more, staying in U.
ReachableWithin(n, U) ==
    LET F[i \in 1..Cardinality(DOMAIN deps) + 1] ==
            IF i = 1 THEN deps[n] \cap U
            ELSE F[i - 1] \cup (UNION {deps[m] : m \in F[i - 1] \cap DOMAIN deps} \cap U)
    IN F[Cardinality(DOMAIN deps) + 1]

HasCycle(t, inst) ==
    LET U == UnmetClosure(t, inst) \cap DOMAIN deps
    IN \E n \in U : n \in ReachableWithin(n, U)

\* C1: in an install run no installer step of a package runs before every declared
\* dependency of the package was installed when the run started or has completed
\* its own installer step earlier in the run.
C1_DependenciesInstalledFirst ==
    \A i \in 1..Len(installLog) :
        \A d \in deps[installLog[i]] :
            d \in installed \/ \E j \in 1..(i - 1) : installLog[j] = d

\* C2: when no command is in progress, every package recorded in the install state
\* has its directory Cellar/<name>/<version> for the recorded version.
C2_RecordedPackagesHaveCellar ==
    pc \in {"idle", "done"} =>
        \A n \in InstalledNames : <<n, state[n]>> \in cellar

\* C3: after an install or uninstall has returned, with or without an error, the
\* directory Cellar/<name>/<version> exists exactly when the state records <name>
\* at <version>.
C3_CellarAndStateTogether ==
    pc \in {"idle", "done"} =>
        \A n \in DOMAIN state : \A v \in {StableVersion(n)} :
            (<<n, v>> \in cellar) <=> (state[n] = v)

\* C4: when an install run has returned, a package whose archive failed the
\* SHA-256 comparison in the run (in its fetch task, or in the source path, where
\* the run returns ChecksumMismatch) has no state record and no directory under
\* Cellar/<name>.
C4_ChecksumMismatchLeavesNothing ==
    (pc = "done" /\ cmd = "install") =>
        /\ \A p \in DOMAIN tasks :
              tasks[p] = "ChecksumMismatch" => state[p] = NoVersion /\ OwnDirs(p) = {}
        /\ result = "ChecksumMismatch" =>
              /\ state[all_to_install[loopIdx]] = NoVersion
              /\ OwnDirs(all_to_install[loopIdx]) = {}

\* C5: the list the resolver emits holds no installed name and no name twice, and
\* neither does the combined list of an install of several requested names.
C5_NoInstalledNoDuplicate ==
    /\ (cmd = "resolve" /\ res.err = "none") =>
          /\ NoDuplicates(res.list)
          /\ Range(res.list) \cap res_installed = {}
    /\ cmd = "install" =>
          /\ NoDuplicates(all_to_install)
          /\ Range(all_to_install) \cap installed = {}

C5_Witness ==
    /\ cmd = "install" /\ errors = <<>>
    /\ Len(package_names) = 2 /\ Len(all_to_install) = 3
    /\ Range(package_names) \subseteq DOMAIN deps
    /\ \E n \in Range(all_to_install) : deps[n] \cap installed # {}
    /\ deps[package_names[1]] \cap deps[package_names[2]] \cap Range(all_to_install) # {}

\* C6: when the resolver succeeds, every emitted name comes after every emitted name
\* it lists as a runtime dependency.
C6_DependencyOrder ==
    (cmd = "resolve" /\ res.err = "none") =>
        \A i, j \in 1..Len(res.list) :
            res.list[i] \in deps[res.list[j]] => i < j

C6_Witness ==
    /\ cmd = "resolve" /\ res.err = "none"
    /\ Len(res.list) = 3
    /\ \E d \in deps[res_target] \cap DOMAIN deps : deps[d] \cap deps[res_target] # {}

\* C7: when the resolver succeeds for a target that is not installed, it emits
\* exactly the target and the formulae the target requires transitively that are
\* not installed, those reached only through an installed dependency included; and
\* for the chain a -> b -> c with nothing installed it emits [c, b, a].
C7_WholeClosure ==
    (cmd = "resolve" /\ res.err = "none" /\ res_target \notin res_installed) =>
        /\ Range(res.list) = (TransitiveDeps(res_target) \cap DOMAIN deps) \ res_installed
        /\ (deps = Chain /\ res_installed = {} /\ res_target = 1) => res.list = <<3, 2, 1>>

\* C8: an install of the one name A whose not-installed closure holds a cycle fails
\* with DependencyCycle, and nothing is downloaded, installed or recorded.
C8_CycleFailsWithDependencyCycle ==
    (/\ pc = "done" /\ cmd = "install"
     /\ Len(package_names) = 1
     /\ package_names[1] \in DOMAIN deps
     /\ HasCycle(package_names[1], installed)) =>
        /\ result = "DependencyCycle"
        /\ Spawned = {}
        /\ InstalledNames = installed
        /\ cellar = cellarAtStart

\* The archive fetches in progress: the fetch tasks holding a permit and the source
\* archive being fetched for a package built from source.
FetchesInProgress == Cardinality(Running) + (IF pc = "source" THEN 1 ELSE 0)

\* C9: at every moment of a run at most 8 archive fetches are in progress.
C9_AtMostEightFetches == FetchesInProgress <= Permits

\* C10: when a run that got past validation has returned and no installer step
\* failed, every package with a bottle has a settled fetch task and every package
\* whose fetch succeeded is recorded in the install state.
C10_FailureCancelsNothing ==
    (/\ pc = "done" /\ cmd = "install"
     /\ ~dry_run /\ all_to_install # <<>>
     /\ ~installerFailed) =>
        \A p \in Range(all_to_install) :
            /\ ~TakesSourcePath(p) => tasks[p] \in Settled
            /\ tasks[p] = "ok" => state[p] = StableVersion(p)

\* C11: when an install run of several packages has returned and at least one
\* package failed (in validation, in its fetch task or later), the process exits
\* with a non-zero code, and every package the run installed is in the Cellar and
\* in the install state.
C11_BatchFailureExitsNonZero ==
    (/\ pc = "done" /\ cmd = "install" /\ ~dry_run
     /\ (errors # <<>> \/ failed_packages # <<>> \/ result # "Ok")) =>
        /\ ExitCode # 0
        /\ \A p \in Range(installLog) :
              state[p] = StableVersion(p) /\ <<p, StableVersion(p)>> \in cellar

\* The validators the metadata stores for a catalog.
Validators(m, k) == [etag |-> m.etag[k], last_modified |-> m.last_modified[k]]

\* C12: after a completed update, for each catalog the stored validators equal the
\* ETag and Last-Modified headers of the response the stored body was written from
\* (absent where that response carried none).
C12_ValidatorsMatchBody ==
    (pc = "done" /\ cmd = "update" /\ result = "Ok") =>
        \A k \in CatalogKinds :
            body[k] # Absent => Validators(meta, k) = source[k]

\* C13: after a completed update that received 304 for a catalog, that catalog's
\* body and validators are what they were before; and when both catalogs received
\* 304, nothing in the cache but the metadata's last_updated has changed.
C13_NotModifiedChangesNothing ==
    (pc = "done" /\ cmd = "update" /\ result = "Ok") =>
        /\ \A k \in CatalogKinds :
              upd.fetched[k] = "304" =>
                  /\ body[k] = upd.before.body[k]
                  /\ Validators(meta, k) = Validators(upd.before.meta, k)
        /\ (\A k \in CatalogKinds : upd.fetched[k] = "304") =>
              /\ body = upd.before.body
              /\ meta = [upd.before.meta EXCEPT !.last_updated = meta.last_updated]

\* C14: whenever no command is running, also after an update that failed part-way,
\* no stored validator of a catalog comes from another response than the stored
\* body of that catalog.
C14_BodyAndValidatorsFromOneResponse ==
    pc \in {"idle", "done"} =>
        \A k \in CatalogKinds :
            body[k] # Absent =>
                /\ meta.etag[k] \in {Absent, body[k]}
                /\ meta.last_modified[k] \in {Absent, body[k]}


\* C15: when an install has returned, every entry that was in the prefix before it
\* is unchanged, and the install has not failed on an entry in its way (the
\* environment fails nothing under SpecLink).
C15_ExistingEntryIsLeftAlone ==
    (pc = "done" /\ cmd = "install" /\ ~dry_run) =>
        /\ \A p \in Paths :
              hist.start.prefix[p] # NoEntry => prefix[p] = hist.start.prefix[p]
        /\ result # "IoError"

\* The package an uninstall names, and the version recorded for it before.
Unlinking == package_names[1]
UnlinkedVersion == hist.start.state[Unlinking]

C17_UninstallLeavesNoLinks ==
    (/\ pc = "done" /\ cmd = "uninstall" /\ result = "Ok" /\ ~dry_run
     /\ UnlinkedVersion # NoVersion
     /\ (Dependents(Unlinking) = {} \/ state[Unlinking] = NoVersion)) =>
        /\ state[Unlinking] = NoVersion
        /\ \A p \in Paths : ~(prefix[p].kind = "link" /\ prefix[p].to[1] = Unlinking)

\* C18: when `uninstall P` has succeeded right after a successful `install P` of a
\* P that was not installed, the install state, the Cellar and the entries of the
\* prefix are what they were before the install.
C18_InstallThenUninstallRestores ==
    (/\ pc = "done" /\ cmd = "uninstall" /\ result = "Ok" /\ ~dry_run
     /\ hist.prev = [cmd |-> "install", names |-> package_names, result |-> "Ok",
                     dry_run |-> FALSE]
     /\ hist.before.state[Unlinking] = NoVersion
     /\ state[Unlinking] = NoVersion) =>
        Disk = hist.before


\* C19: when a sync has returned right after a successful lock (same catalog, same
\* install state), it has succeeded, it has spawned no download and planned no
\* install, and the install state, the Cellar and the prefix are as before.
C19_LockThenSyncIsNoOp ==
    (/\ pc = "done" /\ cmd = "sync"
     /\ hist.prev.cmd = "lock" /\ hist.prev.result = "Ok") =>
        /\ result = "Ok"
        /\ all_to_install = <<>>
        /\ tasks = NoTasks
        /\ Disk = hist.start

\* The entries of the lockfile whose version the catalog does not have.
Outdated == {n \in Locked \cap DOMAIN deps : lockfile.packages[n].version # StableVersion(n)}

\* C20: when a sync has returned and the lockfile had an entry whose version is no
\* longer in the catalog (every entry being a formula of the catalog with a
\* bottle), sync has failed with LockfileError, whether or not that package is
\* installed, and the install state, the Cellar and the prefix are as before.
C20_OutdatedLockFails ==
    (/\ pc = "done" /\ cmd = "sync"
     /\ lockfile.exists
     /\ \A n \in Locked : n \in DOMAIN deps /\ has_bottle[n]
     /\ Outdated # {}) =>
        /\ result = "LockfileError"
        /\ Disk = hist.start


\* The Cellar directories that were there without a record when the command began.
Leftovers == {d \in hist.start.cellar : hist.start.state[d[1]] = NoVersion}

\* C21: when an outdated command (which runs sync-from-cellar) has returned, a
\* package whose Cellar directory was left without a state record is still not
\* recorded as installed, and its leftover directory is gone.
C21_LeftoverIsNotRecorded ==
    (pc = "done" /\ cmd = "outdated" /\ result = "Ok") =>
        \A d \in Leftovers : state[d[1]] = NoVersion /\ d \notin cellar

Occurs(placeholder, content) ==
    \E i \in 1..Len(content) :
        /\ i + Len(placeholder) - 1 <= Len(content)
        /\ SubSeq(content, i, i + Len(placeholder) - 1) = placeholder

\* The relocator has run over a tree whose file is not an ELF file.
RelocatedText == reloc.status # "none" /\ ~IsELF(reloc.before.content)

\* C23: for every non-ELF regular file and every prefix, the relocator leaves the
\* length of the file unchanged: the file is never longer after relocation.
C23_RelocationKeepsLength ==
    RelocatedText => Len(tree.content) = Len(reloc.before.content)

C25_ModeRestored ==
    reloc.status # "none" => tree.mode = reloc.before.mode


\* C26: for every package installed from a bottle, the relocator is run over the
\* copied Cellar subtree, after the copy and before the symlinks and the state write.
C26_RelocatorRunsOnBottles ==
    (\E i \in 1..Len(installLog) : ~TakesSourcePath(installLog[i])) =>
        reloc.status # "none"

\* The package whose installer step failed: the one being built from source when no
\* package was extracted yet, the one of the installer loop otherwise.
FailedPackage ==
    IF extracted_packages = <<>> THEN all_to_install[loopIdx]
    ELSE extracted_packages[instIdx]

\* C27: in the bottle, source-build and lockfile-sync paths the state write is the
\* last step of a package, after the copy and the symlinks: a run whose copy or
\* symlink step failed leaves no install-state entry written for that package.
C27_FailedStepWritesNoEntry ==
    installerFailed =>
        /\ state[FailedPackage] = hist.start.state[FailedPackage]
        /\ cmd = "install" => state[FailedPackage] = NoVersion

C27_Witness ==
    /\ installerFailed
    /\ cmd = "sync"
    /\ <<FailedPackage, StableVersion(FailedPackage)>> \in cellar
    /\ <<FailedPackage, StableVersion(FailedPackage)>> \notin hist.start.cellar
    /\ \E n \in DOMAIN state : state[n] # hist.start.state[n]


\* The requested names on which the resolver returned an error.
ResolverErrors ==
    {errors[i][1] : i \in {j \in 1..Len(errors) :
                              errors[j][2] \in {"DependencyCycle", "FormulaNotFound"}}}

\* C28: a package of the run whose manifest has neither the entry of the platform nor
\* the entry `all` fails with BottleNotAvailable: it is not installed by the run.
C28_NoBottleFails ==
    \A i \in 1..Len(installLog) : has_bottle[installLog[i]]

\* C29: a resolver error (DependencyCycle, or FormulaNotFound for a dependency) on a
\* requested package is fatal for the whole install run: the run has returned an
\* error and no package of the run was downloaded, installed or recorded.
C29_ResolverErrorIsFatal ==
    (cmd = "install" /\ ResolverErrors # {}) =>
        /\ pc = "done"
        /\ result \notin {"Ok", "none"}
        /\ Spawned = {}
        /\ installLog = <<>>
        /\ InstalledNames = installed
        /\ cellar = cellarAtStart


\* C30: within one process, two calls of the resolver with the same target, the same
\* formula list and the same installed set return the same ordered list: what a call
\* returned is what every call on these inputs returns.
C30_ResolverIsDeterministic ==
    cmd = "resolve" =>
        \A r \in ResolveOutputs(res_target, res_installed) : r = res


C32_RecordedPlatformIsSelectedTag ==
    \A i \in 1..Len(installLog) :
        (/\ ~TakesSourcePath(installLog[i])
         /\ SelectedTag(bottle_files[installLog[i]]) = "all"
         /\ state[installLog[i]] # NoVersion) =>
            Platform(installLog[i]) = "all"


\* C33: the cached formula projection of a tap is invalidated on tap remove and tap
\* update: after either operation, loading all formulae never returns that tap's
\* formulae from a cache file written before the operation.
C33_TapCacheInvalidated == ~tap.loaded.old


\* C34: when a catalog fetch fails with a network error during update and a cached
\* catalog is present, update does not fail: it degrades to the cached copy and leaves
\* bodies and validators unchanged.
C34_UpdateDegradesToCache ==
    (/\ pc = "done" /\ cmd = "update"
     /\ \E k \in CatalogKinds : upd.fetched[k] = "err"
     /\ \A k \in CatalogKinds : upd.before.body[k] # Absent
     /\ upd.before.meta.exists) =>
        /\ result = "Ok"
        /\ body = upd.before.body
        /\ meta = upd.before.meta


\* The numbers of a base, from the table of the bases.
NumsOf(text) == (CHOOSE b \in BaseTable : b.text = text).nums

\* The order of two lists of numbers, the shorter one continued with zeros.
NumsOrdering(x, y) ==
    LET n == Max(Len(x), Len(y))
        diff == {i \in 1..n : PartAt(x, i) # PartAt(y, i)}
    IN IF diff = {} THEN "Equal"
       ELSE LET i == CHOOSE j \in diff : \A k \in diff : j <= k
            IN Ordering(PartAt(x, i), PartAt(y, i))

\* The order the versions are ranked in, for two strings made of a base and a
\* revision: by revision when the bases are the same, by the numbers of the bases
\* when those differ; "Any" where neither applies.
Ranked(a, m, b, n) ==
    IF a = b THEN Ordering(m, n)
    ELSE IF NumsOrdering(NumsOf(a), NumsOf(b)) # "Equal"
         THEN NumsOrdering(NumsOf(a), NumsOf(b))
         ELSE "Any"

Agrees(ord, ranked) == ranked = "Any" \/ ord = ranked

C36_CombinedListInDependencyOrder ==
    cmd = "install" =>
        \A i \in 1..Len(all_to_install) :
            \A d \in deps[all_to_install[i]] :
                d \in installed \/ \E j \in 1..(i - 1) : all_to_install[j] = d

C36_Witness ==
    /\ cmd = "install"
    /\ Len(package_names) >= 2
    /\ package_names[1] # package_names[2]
    /\ errors = <<>>
    /\ Len(all_to_install) = Cardinality(DOMAIN deps)
    /\ \E d \in DOMAIN deps :
          d \in deps[package_names[1]] /\ d \in deps[package_names[2]] /\ d \notin installed


\* C37: when install --dry-run, uninstall --dry-run or upgrade --dry-run has
\* returned, the install state document, the Cellar and the entries under the
\* prefix are exactly what they were when the command started.
C37_DryRunChangesNothing ==
    (/\ pc = "done" /\ ~upg.active
     /\ dry_run
     /\ cmd \in {"install", "uninstall", "upgrade"})
        => Disk = hist.start

\* C38: every formula for which the uninstall-then-install sequence of upgrade has
\* returned success is recorded in the install state at the catalog's stable
\* version, whatever the answer to the uninstall confirmation was.
C38_UpgradedIsAtStableVersion ==
    \A i \in 1..Len(upg.upgraded) :
        state[upg.upgraded[i]] = StableVersion(upg.upgraded[i])


\* The install left its loop over the requested names for install_cask.
CaskReturn == \E i \in 1..Len(package_names) : package_names[i] \in Casks

\* The names for which the run printed an error of their own.
ReportedNames ==
    IF CaskReturn THEN {}
    ELSE {errors[i][1] : i \in 1..Len(errors)}
         \cup {n \in DOMAIN tasks : tasks[n] \in FetchFailures}

\* C39: when an install (not a dry run) of several names has returned Ok, every
\* requested name was installed already, or is now recorded in the install state,
\* or was reported with an error of its own; a name that is a cask is accounted
\* for by install_cask.
C39_EveryNameAccountedFor ==
    (pc = "done" /\ cmd = "install" /\ ~dry_run /\ result = "Ok") =>
        \A i \in 1..Len(package_names) :
            LET n == package_names[i] IN
            \/ n \in Casks
            \/ n \in installed
            \/ state[n] = StableVersion(n)
            \/ n \in ReportedNames


\* The run is past join_all: the installer loop has begun, or every fetch failed and
\* the run has returned that.
PastJoin == pc = "installer" \/ (pc = "done" /\ failed_packages # <<>>)

\* C40: in a run of more than 8 packages every spawned fetch task is eventually
\* settled (it has acquired a permit, finished with success or with an error and
\* released the permit), and the run eventually gets past join_all to the installer.
C40_EveryTaskSettles ==
    /\ \A p \in FetchNames : (tasks[p] = "waiting") ~> (tasks[p] \in Settled)
    /\ (pc = "loop") ~> PastJoin

====
